---------------------------- MODULE Spec2Model ----------------------------
(***************************************************************************)
(* A model of the pizza/football correlation engine:                       *)
(*   - the validating constructors of FootballMatch and CorrelationResult  *)
(*     (src/src/models/football_match.py, correlation_result.py),          *)
(*   - CorrelationAnalyzer.calculate_match_period_metrics and              *)
(*     CorrelationAnalyzer.calculate_correlation_coefficients              *)
(*     (src/src/data_processing/correlation_analyzer.py).                  *)
(*                                                                         *)
(* Time is counted in ticks of half an hour, so that timedelta(hours=h) is *)
(* 2*h ticks and half of an odd number of hours is a whole number of ticks.*)
(* A Python float is a whole number of 1/Scale units, or NaN.              *)
(***************************************************************************)
EXTENDS Integers, Sequences, FiniteSets, TLC

VARIABLES
    attempt,   \* the arguments of the last constructor call (NoCall before the first)
    made,      \* the object that call returned (NoObject when it raised)
    raised,    \* the ValueError message of that call ("none" when it returned)
    orders,    \* the order list handed to calculate_match_period_metrics
    matches,   \* the match list handed to calculate_match_period_metrics
    args,      \* <<pre, during, post>> hours of the calculate_match_period_metrics call
    rows,      \* what that call left: Returned(a sequence of rows), Raised or NotCalled
    metrics_df,\* the metrics DataFrame handed to the sweep of the specification at hand
    stats_clips, \* whether the statistics library clips a coefficient to [-1, 1]
    findings,  \* what calculate_correlation_coefficients left: Returned(list), Raised, NotCalled
    heap,      \* the CorrelationResult objects alive, by position: their fields now
    constructed, \* the fields each of them had when its constructor returned
    correlation_results, \* the list handed to detect_statistical_significance: positions in heap
    alpha,     \* the alpha of that call
    significant, \* what that call left: Returned(list of positions in heap), Raised, NotCalled
    fault,     \* the sub-computation of a sweep in which a library call raises; 0 for none
    patterns,  \* what analyze_temporal_patterns left
    anomalies, \* what detect_anomalies_with_source_distinction left
    classified, \* what classify_football_events left
    report,    \* what generate_comprehensive_report left
    runs,      \* what each run of the analysis pipeline so far left, in order
    clock,     \* time.time() and datetime.utcnow(): the wall clock
    limiter,   \* the fields of the RateLimiter object
    requests,  \* the times at which wait_if_needed let a request through, in order
    call,      \* the arguments of the call of a function of the specification at hand
    answer     \* what that call left

modelVars   == <<attempt, made, raised>>
metricsVars == <<orders, matches, args, rows>>
corrVars    == <<metrics_df, stats_clips, findings>>
heapVars    == <<heap, constructed>>
filterVars  == <<correlation_results, alpha, significant>>
insightVars == <<fault, patterns, anomalies, classified>>
toolVars    == <<report, runs, clock, limiter, requests, call, answer>>
vars == <<attempt, made, raised, orders, matches, args, rows, metrics_df, stats_clips, findings, heap, constructed, correlation_results, alpha, significant, fault, patterns, anomalies, classified, report, runs, clock, limiter, requests, call, answer>>

\* What a call of the analyzer leaves with its caller: nothing yet, the value it
\* returned, or the exception it raised.
NotCalled   == [status |-> "not_called", value |-> <<>>]
Returned(v) == [status |-> "returned", value |-> v]
Raised(e)   == [status |-> e, value |-> <<>>]

\* No CorrelationResult object yet; no call of detect_statistical_significance.
NoObjects == heap = <<>> /\ constructed = <<>>

FilterIdle ==
    correlation_results = <<>> /\ alpha = [ty |-> "NoneType", n |-> 0, s |-> ""]
    /\ significant = NotCalled

\* No report, no pipeline run, no rate limiter and no call of a lone function.
ToolsIdle ==
    /\ report = NotCalled /\ runs = <<>> /\ clock = 0
    /\ limiter = [cls |-> "no_object"] /\ requests = <<>>
    /\ call = [cls |-> "no_call"] /\ answer = NotCalled

\* No call of the insight generator or of classify_football_events, and no failure.
InsightIdle ==
    fault = 0 /\ patterns = NotCalled /\ anomalies = NotCalled /\ classified = NotCalled

-----------------------------------------------------------------------------
(* Python values *)

Scale == 100

PyInt(i)      == [ty |-> "int",      n |-> i, s |-> ""]
PyFloat(v)    == [ty |-> "float",    n |-> v, s |-> ""]
PyNaN         == [ty |-> "float",    n |-> 0, s |-> "nan"]
PyBool(b)     == [ty |-> "bool",     n |-> IF b THEN 1 ELSE 0, s |-> ""]
PyStr(x)      == [ty |-> "str",      n |-> 0, s |-> x]
PyNone        == [ty |-> "NoneType", n |-> 0, s |-> ""]
PyDatetime(t) == [ty |-> "datetime", n |-> t, s |-> ""]

IsNaN(x) == x.ty = "float" /\ x.s = "nan"

\* isinstance(x, (int, float)); bool is a subclass of int
IsNumber(x) == x.ty \in {"int", "bool", "float"}

\* isinstance(x, int)
IsInt(x) == x.ty \in {"int", "bool"}

\* the value of a number in 1/Scale units (True is 1, False is 0)
Num(x) == IF x.ty \in {"int", "bool"} THEN x.n * Scale ELSE x.n

\* a <= x <= b for Python numbers, a and b given in 1/Scale units: false for NaN
Between(a, x, b) == ~IsNaN(x) /\ a <= Num(x) /\ Num(x) <= b

\* bool(x) of a str, None or int
Truthy(x) ==
    CASE x.ty = "str" -> x.s # ""
      [] x.ty = "NoneType" -> FALSE
      [] x.ty = "int" -> x.n # 0
      [] OTHER -> TRUE

\* not x or not isinstance(x, str)
NotNonEmptyStr(x) == ~Truthy(x) \/ x.ty # "str"

-----------------------------------------------------------------------------
(* FootballMatch: football_match.py *)

valid_event_types == {"goal", "win", "loss", "draw"}
valid_significance == {"regular", "tournament", "final"}
valid_data_sources == {"real", "mock"}

\* A variant of validate whose 'win' check lets a level score through.
FootballMatchValidateWinLevel(self) ==
    IF NotNonEmptyStr(self.match_id) THEN "match_id must be a non-empty string"
    ELSE IF self.timestamp.ty # "datetime" THEN "timestamp must be a datetime object"
    ELSE IF NotNonEmptyStr(self.home_team) THEN "home_team must be a non-empty string"
    ELSE IF NotNonEmptyStr(self.away_team) THEN "away_team must be a non-empty string"
    ELSE IF self.home_team = self.away_team THEN "home_team and away_team must be different"
    ELSE IF ~IsInt(self.home_score) \/ self.home_score.n < 0
        THEN "home_score must be a non-negative integer"
    ELSE IF ~IsInt(self.away_score) \/ self.away_score.n < 0
        THEN "away_score must be a non-negative integer"
    ELSE IF self.event_type \notin valid_event_types THEN "event_type must be one of"
    ELSE IF self.match_significance \notin valid_significance
        THEN "match_significance must be one of"
    ELSE IF self.data_source \notin valid_data_sources
        THEN "data_source must be either 'real' or 'mock'"
    ELSE IF self.event_type = "draw" /\ self.home_score.n # self.away_score.n
        THEN "event_type 'draw' requires equal home and away scores"
    ELSE IF self.event_type = "win" /\ self.home_score.n < self.away_score.n
        THEN "event_type 'win' requires home_score > away_score"
    ELSE IF self.event_type = "loss" /\ self.home_score.n >= self.away_score.n
        THEN "event_type 'loss' requires home_score < away_score"
    ELSE "ok"

\* A variant of validate that has no check of 'loss' against the scores.
FootballMatchValidateNoLoss(self) ==
    IF NotNonEmptyStr(self.match_id) THEN "match_id must be a non-empty string"
    ELSE IF self.timestamp.ty # "datetime" THEN "timestamp must be a datetime object"
    ELSE IF NotNonEmptyStr(self.home_team) THEN "home_team must be a non-empty string"
    ELSE IF NotNonEmptyStr(self.away_team) THEN "away_team must be a non-empty string"
    ELSE IF self.home_team = self.away_team THEN "home_team and away_team must be different"
    ELSE IF ~IsInt(self.home_score) \/ self.home_score.n < 0
        THEN "home_score must be a non-negative integer"
    ELSE IF ~IsInt(self.away_score) \/ self.away_score.n < 0
        THEN "away_score must be a non-negative integer"
    ELSE IF self.event_type \notin valid_event_types THEN "event_type must be one of"
    ELSE IF self.match_significance \notin valid_significance
        THEN "match_significance must be one of"
    ELSE IF self.data_source \notin valid_data_sources
        THEN "data_source must be either 'real' or 'mock'"
    ELSE IF self.event_type = "draw" /\ self.home_score.n # self.away_score.n
        THEN "event_type 'draw' requires equal home and away scores"
    ELSE IF self.event_type = "win" /\ self.home_score.n <= self.away_score.n
        THEN "event_type 'win' requires home_score > away_score"
    ELSE "ok"

\* FootballMatch.validate: "ok", or the message of the ValueError it raises.
FootballMatchValidate(self) ==
    IF NotNonEmptyStr(self.match_id) THEN "match_id must be a non-empty string"
    ELSE IF self.timestamp.ty # "datetime" THEN "timestamp must be a datetime object"
    ELSE IF NotNonEmptyStr(self.home_team) THEN "home_team must be a non-empty string"
    ELSE IF NotNonEmptyStr(self.away_team) THEN "away_team must be a non-empty string"
    ELSE IF self.home_team = self.away_team THEN "home_team and away_team must be different"
    ELSE IF ~IsInt(self.home_score) \/ self.home_score.n < 0
        THEN "home_score must be a non-negative integer"
    ELSE IF ~IsInt(self.away_score) \/ self.away_score.n < 0
        THEN "away_score must be a non-negative integer"
    ELSE IF self.event_type \notin valid_event_types THEN "event_type must be one of"
    ELSE IF self.match_significance \notin valid_significance
        THEN "match_significance must be one of"
    ELSE IF self.data_source \notin valid_data_sources
        THEN "data_source must be either 'real' or 'mock'"
    ELSE IF self.event_type = "draw" /\ self.home_score.n # self.away_score.n
        THEN "event_type 'draw' requires equal home and away scores"
    ELSE IF self.event_type = "win" /\ self.home_score.n <= self.away_score.n
        THEN "event_type 'win' requires home_score > away_score"
    ELSE IF self.event_type = "loss" /\ self.home_score.n >= self.away_score.n
        THEN "event_type 'loss' requires home_score < away_score"
    ELSE "ok"

\* The dataclass fields, in declaration order.
FootballMatch(match_id, timestamp, home_team, away_team, home_score, away_score, event_type, match_significance, data_source) ==
    [cls |-> "FootballMatch", match_id |-> match_id, timestamp |-> timestamp,
     home_team |-> home_team, away_team |-> away_team,
     home_score |-> home_score, away_score |-> away_score,
     event_type |-> event_type, match_significance |-> match_significance,
     data_source |-> data_source]

-----------------------------------------------------------------------------
(* CorrelationResult: correlation_result.py *)

valid_time_windows ==
    {"pre_match", "during_match", "post_match", "full_match",
     "pre_to_post_match", "during_to_post_match"}

\* A variant of validate without the range check of the coefficient.
CorrelationResultValidateNoCoefRange(self) ==
    IF NotNonEmptyStr(self.analysis_id) THEN "analysis_id must be a non-empty string"
    ELSE IF ~IsNumber(self.correlation_coefficient)
        THEN "correlation_coefficient must be a number"
    ELSE IF ~IsNumber(self.statistical_significance)
        THEN "statistical_significance must be a number"
    ELSE IF ~Between(0, self.statistical_significance, Scale)
        THEN "statistical_significance must be between 0 and 1"
    ELSE IF self.time_window \notin valid_time_windows THEN "time_window must be one of"
    ELSE IF NotNonEmptyStr(self.pattern_description)
        THEN "pattern_description must be a non-empty string"
    ELSE IF ~IsNumber(self.data_quality) THEN "data_quality must be a number"
    ELSE IF ~Between(0, self.data_quality, 100 * Scale)
        THEN "data_quality must be between 0 and 100"
    ELSE IF self.analysis_timestamp.ty \notin {"NoneType", "datetime"}
        THEN "analysis_timestamp must be a datetime object or None"
    ELSE IF self.sample_size.ty # "NoneType"
            /\ (~IsInt(self.sample_size) \/ self.sample_size.n < 0)
        THEN "sample_size must be a non-negative integer or None"
    ELSE "ok"

\* A variant of validate whose p-value check has no upper end.
CorrelationResultValidateNoPUpper(self) ==
    IF NotNonEmptyStr(self.analysis_id) THEN "analysis_id must be a non-empty string"
    ELSE IF ~IsNumber(self.correlation_coefficient)
        THEN "correlation_coefficient must be a number"
    ELSE IF ~Between(-Scale, self.correlation_coefficient, Scale)
        THEN "correlation_coefficient must be between -1 and 1"
    ELSE IF ~IsNumber(self.statistical_significance)
        THEN "statistical_significance must be a number"
    ELSE IF IsNaN(self.statistical_significance) \/ Num(self.statistical_significance) < 0
        THEN "statistical_significance must be between 0 and 1"
    ELSE IF self.time_window \notin valid_time_windows THEN "time_window must be one of"
    ELSE IF NotNonEmptyStr(self.pattern_description)
        THEN "pattern_description must be a non-empty string"
    ELSE IF ~IsNumber(self.data_quality) THEN "data_quality must be a number"
    ELSE IF ~Between(0, self.data_quality, 100 * Scale)
        THEN "data_quality must be between 0 and 100"
    ELSE IF self.analysis_timestamp.ty \notin {"NoneType", "datetime"}
        THEN "analysis_timestamp must be a datetime object or None"
    ELSE IF self.sample_size.ty # "NoneType"
            /\ (~IsInt(self.sample_size) \/ self.sample_size.n < 0)
        THEN "sample_size must be a non-negative integer or None"
    ELSE "ok"

\* CorrelationResult.validate: "ok", or the message of the ValueError it raises.
CorrelationResultValidate(self) ==
    IF NotNonEmptyStr(self.analysis_id) THEN "analysis_id must be a non-empty string"
    ELSE IF ~IsNumber(self.correlation_coefficient)
        THEN "correlation_coefficient must be a number"
    ELSE IF ~Between(-Scale, self.correlation_coefficient, Scale)
        THEN "correlation_coefficient must be between -1 and 1"
    ELSE IF ~IsNumber(self.statistical_significance)
        THEN "statistical_significance must be a number"
    ELSE IF ~Between(0, self.statistical_significance, Scale)
        THEN "statistical_significance must be between 0 and 1"
    ELSE IF self.time_window \notin valid_time_windows THEN "time_window must be one of"
    ELSE IF NotNonEmptyStr(self.pattern_description)
        THEN "pattern_description must be a non-empty string"
    ELSE IF ~IsNumber(self.data_quality) THEN "data_quality must be a number"
    ELSE IF ~Between(0, self.data_quality, 100 * Scale)
        THEN "data_quality must be between 0 and 100"
    ELSE IF self.analysis_timestamp.ty \notin {"NoneType", "datetime"}
        THEN "analysis_timestamp must be a datetime object or None"
    ELSE IF self.sample_size.ty # "NoneType"
            /\ (~IsInt(self.sample_size) \/ self.sample_size.n < 0)
        THEN "sample_size must be a non-negative integer or None"
    ELSE "ok"

\* The dataclass fields, in declaration order.
CorrelationResult(analysis_id, correlation_coefficient, statistical_significance, time_window, pattern_description, data_quality, analysis_timestamp, sample_size) ==
    [cls |-> "CorrelationResult", analysis_id |-> analysis_id,
     correlation_coefficient |-> correlation_coefficient,
     statistical_significance |-> statistical_significance,
     time_window |-> time_window, pattern_description |-> pattern_description,
     data_quality |-> data_quality, analysis_timestamp |-> analysis_timestamp,
     sample_size |-> sample_size]

\* The wall clock read by datetime.now() in __post_init__.
Now == 0

\* CorrelationResult.__post_init__: the default timestamp is set before validate runs.
CorrelationResultPostInit(self) ==
    IF self.analysis_timestamp.ty = "NoneType"
    THEN [self EXCEPT !.analysis_timestamp = PyDatetime(Now)]
    ELSE self
-----------------------------------------------------------------------------
(* Constructor calls: one call per run, with arguments from small sets *)

MaxScore == 2

NoCall   == [cls |-> "no_call"]
NoObject == [cls |-> "no_object"]

MatchIdArgs    == {PyStr(""), PyStr("MATCH123"), PyNone}
TimestampArgs  == {PyDatetime(0), PyStr("2024-01-15")}
TeamArgs       == {PyStr(""), PyStr("Arsenal"), PyStr("Chelsea")}
ScoreArgs      == {PyStr("2")} \cup {PyInt(i) : i \in -1..MaxScore}
EventTypeArgs  == valid_event_types \cup {"kickoff"}
SignificanceArgs == valid_significance \cup {"friendly"}
DataSourceArgs == valid_data_sources \cup {"test"}

AnalysisIdArgs  == {PyStr(""), PyStr("ANALYSIS123")}
CoefficientArgs == {PyNaN, PyStr("0.5"), PyInt(1), PyInt(-2)}
                   \cup {PyFloat(v) : v \in {-Scale - 1, -Scale, 0, 75, Scale, Scale + 50}}
PValueArgs      == {PyNaN, PyStr("0.02"), PyInt(0), PyInt(2)}
                   \cup {PyFloat(v) : v \in {-1, 0, 2, Scale, Scale + 50}}
TimeWindowArgs  == valid_time_windows \cup {"half_time"}
DescriptionArgs == {PyStr(""), PyStr("Test")}
DataQualityArgs == {PyFloat(v) : v \in {-1, 0, 8550, 100 * Scale, 100 * Scale + 1}}
AnalysisTimestampArgs == {PyNone, PyDatetime(1), PyStr("2024-01-15")}
SampleSizeArgs  == {PyNone, PyInt(-1), PyInt(0), PyInt(5)}

\* FootballMatch(...): __init__ stores the fields, __post_init__ runs validate;
\* a ValueError leaves the caller without an object.
NewFootballMatch ==
    /\ attempt = NoCall
    /\ \E match_id \in MatchIdArgs, timestamp \in TimestampArgs,
          home_team \in TeamArgs, away_team \in TeamArgs,
          home_score \in ScoreArgs, away_score \in ScoreArgs,
          event_type \in EventTypeArgs, match_significance \in SignificanceArgs,
          data_source \in DataSourceArgs :
        LET self == FootballMatch(match_id, timestamp, home_team, away_team, home_score,
                                  away_score, event_type, match_significance, data_source)
            err == FootballMatchValidate(self)
        IN /\ attempt' = self
           /\ made' = IF err = "ok" THEN self ELSE NoObject
           /\ raised' = IF err = "ok" THEN "none" ELSE err
    /\ UNCHANGED <<toolVars, metricsVars, corrVars, heapVars, filterVars, insightVars>>

\* CorrelationResult(...): __post_init__ sets the default timestamp, then runs validate.
NewCorrelationResult ==
    /\ attempt = NoCall
    /\ \E analysis_id \in AnalysisIdArgs, correlation_coefficient \in CoefficientArgs,
          statistical_significance \in PValueArgs, time_window \in TimeWindowArgs,
          pattern_description \in DescriptionArgs, data_quality \in DataQualityArgs,
          analysis_timestamp \in AnalysisTimestampArgs, sample_size \in SampleSizeArgs :
        LET given == CorrelationResult(analysis_id, correlation_coefficient,
                                       statistical_significance, time_window,
                                       pattern_description, data_quality,
                                       analysis_timestamp, sample_size)
            self == CorrelationResultPostInit(given)
            err == CorrelationResultValidate(self)
        IN /\ attempt' = given
           /\ made' = IF err = "ok" THEN self ELSE NoObject
           /\ raised' = IF err = "ok" THEN "none" ELSE err
    /\ UNCHANGED <<toolVars, metricsVars, corrVars, heapVars, filterVars, insightVars>>

InitModels ==
    /\ attempt = NoCall /\ made = NoObject /\ raised = "none"
    /\ orders = <<>> /\ matches = <<>> /\ args = <<>> /\ rows = NotCalled
    /\ metrics_df = <<>> /\ stats_clips = TRUE /\ findings = NotCalled
    /\ NoObjects /\ ToolsIdle /\ FilterIdle /\ InsightIdle

NextModels == NewFootballMatch \/ NewCorrelationResult

SpecModels == InitModels /\ [][NextModels]_vars

-----------------------------------------------------------------------------
(* Claims about the constructors, checked under SpecModels *)

IsMatch(x)  == x.cls = "FootballMatch"
IsResult(x) == x.cls = "CorrelationResult"

\* The argument list is well formed up to the event-type consistency checks.
ScoresGiven(x) ==
    /\ IsMatch(x)
    /\ IsInt(x.home_score) /\ IsInt(x.away_score)

\* C1: every FootballMatch that is constructed has event_type 'win' only with
\* home_score > away_score, 'loss' only with home_score < away_score and 'draw' only
\* with equal scores; a call whose integer scores contradict its event_type raises
\* ValueError and returns no object.
C1_ScoreOutcomeConsistency ==
    /\ IsMatch(made) =>
        /\ made.event_type = "win"  => made.home_score.n > made.away_score.n
        /\ made.event_type = "loss" => made.home_score.n < made.away_score.n
        /\ made.event_type = "draw" => made.home_score.n = made.away_score.n
    /\ (/\ ScoresGiven(attempt)
        /\ \/ attempt.event_type = "win"  /\ ~(attempt.home_score.n > attempt.away_score.n)
           \/ attempt.event_type = "loss" /\ ~(attempt.home_score.n < attempt.away_score.n)
           \/ attempt.event_type = "draw" /\ attempt.home_score.n # attempt.away_score.n)
       => made = NoObject /\ raised # "none"

\* C1 witness: a 'win' was constructed, so the consistency check has let one through.
C1_Witness ==
    /\ IsMatch(made) /\ made.event_type = "win"
    /\ made.home_score.n > made.away_score.n

\* The outcome the scores determine.
OutcomeOfScores(h, a) == IF h > a THEN "win" ELSE IF h < a THEN "loss" ELSE "draw"

\* C2 as stated: every constructed FootballMatch has an event_type among win, loss and
\* draw, and it is the one its scores determine.
C2_OutcomeDeterminedByScores ==
    IsMatch(made) =>
        /\ made.event_type \in {"win", "loss", "draw"}
        /\ made.event_type = OutcomeOfScores(made.home_score.n, made.away_score.n)

\* C2 amended: every constructed FootballMatch has an event_type among goal, win, loss
\* and draw; unless it is 'goal' it is the outcome its scores determine, and a call with
\* any other of win, loss, draw for those scores raises and returns no object.
C2_OutcomeDeterminedUnlessGoal ==
    /\ IsMatch(made) =>
        /\ made.event_type \in {"goal", "win", "loss", "draw"}
        /\ made.event_type # "goal" =>
             made.event_type = OutcomeOfScores(made.home_score.n, made.away_score.n)
    /\ (/\ ScoresGiven(attempt)
        /\ attempt.event_type \in {"win", "loss", "draw"}
        /\ attempt.event_type # OutcomeOfScores(attempt.home_score.n, attempt.away_score.n))
       => made = NoObject /\ raised # "none"

\* C2 witness: a 'loss' was constructed with the away side ahead, and so was checked.
C2_Witness ==
    /\ IsMatch(made) /\ made.event_type = "loss"
    /\ made.home_score.n < made.away_score.n

\* C8: a CorrelationResult call whose coefficient is a number outside [-1, 1] or whose
\* p-value is a number outside [0, 1] raises ValueError and returns no object.
C8_OutOfRangeRejected ==
    (/\ IsResult(attempt)
     /\ \/ IsNumber(attempt.correlation_coefficient)
           /\ ~Between(-Scale, attempt.correlation_coefficient, Scale)
        \/ IsNumber(attempt.statistical_significance)
           /\ ~Between(0, attempt.statistical_significance, Scale))
    => made = NoObject /\ raised # "none"

\* C8 witness: a call that is valid but for a p-value of 1.5 was refused on that ground.
C8_Witness ==
    /\ IsResult(attempt)
    /\ attempt.statistical_significance = PyFloat(Scale + 50)
    /\ raised = "statistical_significance must be between 0 and 1"
    /\ made = NoObject
-----------------------------------------------------------------------------
(* calculate_match_period_metrics: correlation_analyzer.py *)

\* The dataclass fields of DominosOrder, in declaration order.
DominosOrder(order_id, timestamp, location, order_total, pizza_types, quantity, data_source) ==
    [cls |-> "DominosOrder", order_id |-> order_id, timestamp |-> timestamp,
     location |-> location, order_total |-> order_total, pizza_types |-> pizza_types,
     quantity |-> quantity, data_source |-> data_source]

\* timedelta(hours=h), in ticks
Hours(h) == 2 * h

RECURSIVE SumNum(_, _)
\* the sum of column col of a frame, in 1/Scale units
SumNum(df, col) ==
    IF df = <<>> THEN 0 ELSE Num(Head(df)[col]) + SumNum(Tail(df), col)

RECURSIVE SumInt(_, _)
\* the sum of an integer column of a frame
SumInt(df, col) ==
    IF df = <<>> THEN 0 ELSE Head(df)[col].n + SumInt(Tail(df), col)

\* df[col].nunique()
NUnique(df, col) == Cardinality({df[i][col] : i \in 1..Len(df)})

\* The six metrics of one period, before they are keyed by the period's name.
PeriodValues(period_orders) ==
    IF period_orders = <<>>
    THEN [order_count |-> PyInt(0), total_volume |-> PyFloat(0),
          avg_order_value |-> PyFloat(0), pizza_count |-> PyInt(0),
          unique_locations |-> PyInt(0), orders_per_hour |-> PyFloat(0)]
    ELSE [order_count |-> PyInt(Len(period_orders)),
          total_volume |-> PyFloat(SumNum(period_orders, "order_total")),
          avg_order_value |->
              PyFloat(SumNum(period_orders, "order_total") \div Len(period_orders)),
          pizza_count |-> PyInt(SumInt(period_orders, "quantity")),
          unique_locations |-> PyInt(NUnique(period_orders, "location")),
          orders_per_hour |-> PyFloat((Len(period_orders) * Scale) \div 2)]

\* A variant that returns no keys at all for a period without orders.
CalculatePeriodMetricsNoZeroFill(period_orders, period_name) ==
    LET v == PeriodValues(period_orders) IN
    IF period_orders = <<>> THEN <<>>
    ELSE CASE period_name = "pre_match" ->
              [pre_match_order_count |-> v.order_count,
               pre_match_total_volume |-> v.total_volume,
               pre_match_avg_order_value |-> v.avg_order_value,
               pre_match_pizza_count |-> v.pizza_count,
               pre_match_unique_locations |-> v.unique_locations,
               pre_match_orders_per_hour |-> v.orders_per_hour]
           [] period_name = "during_match" ->
              [during_match_order_count |-> v.order_count,
               during_match_total_volume |-> v.total_volume,
               during_match_avg_order_value |-> v.avg_order_value,
               during_match_pizza_count |-> v.pizza_count,
               during_match_unique_locations |-> v.unique_locations,
               during_match_orders_per_hour |-> v.orders_per_hour]
           [] period_name = "post_match" ->
              [post_match_order_count |-> v.order_count,
               post_match_total_volume |-> v.total_volume,
               post_match_avg_order_value |-> v.avg_order_value,
               post_match_pizza_count |-> v.pizza_count,
               post_match_unique_locations |-> v.unique_locations,
               post_match_orders_per_hour |-> v.orders_per_hour]

\* CorrelationAnalyzer._calculate_period_metrics: a dict keyed f'{period_name}_...'.
CalculatePeriodMetrics(period_orders, period_name) ==
    LET v == PeriodValues(period_orders) IN
    CASE period_name = "pre_match" ->
          [pre_match_order_count |-> v.order_count,
           pre_match_total_volume |-> v.total_volume,
           pre_match_avg_order_value |-> v.avg_order_value,
           pre_match_pizza_count |-> v.pizza_count,
           pre_match_unique_locations |-> v.unique_locations,
           pre_match_orders_per_hour |-> v.orders_per_hour]
      [] period_name = "during_match" ->
          [during_match_order_count |-> v.order_count,
           during_match_total_volume |-> v.total_volume,
           during_match_avg_order_value |-> v.avg_order_value,
           during_match_pizza_count |-> v.pizza_count,
           during_match_unique_locations |-> v.unique_locations,
           during_match_orders_per_hour |-> v.orders_per_hour]
      [] period_name = "post_match" ->
          [post_match_order_count |-> v.order_count,
           post_match_total_volume |-> v.total_volume,
           post_match_avg_order_value |-> v.avg_order_value,
           post_match_pizza_count |-> v.pizza_count,
           post_match_unique_locations |-> v.unique_locations,
           post_match_orders_per_hour |-> v.orders_per_hour]

\* CorrelationAnalyzer._get_match_winner
GetMatchWinner(home_score, away_score) ==
    IF home_score > away_score THEN "home"
    ELSE IF away_score > home_score THEN "away"
    ELSE "draw"

\* A variant whose pre-match window is closed at the match time.
PreMatchOrdersClosed(orders_df, match_time, pre_match_hours) ==
    LET pre_match_start == match_time - Hours(pre_match_hours)
        pre_match_end == match_time
        Keep(o) == o.timestamp.n >= pre_match_start /\ o.timestamp.n <= pre_match_end
    IN SelectSeq(orders_df, Keep)

\* The orders of the pre-match period (lines 169-170, 179-182).
PreMatchOrders(orders_df, match_time, pre_match_hours) ==
    LET pre_match_start == match_time - Hours(pre_match_hours)
        pre_match_end == match_time
        Keep(o) == o.timestamp.n >= pre_match_start /\ o.timestamp.n < pre_match_end
    IN SelectSeq(orders_df, Keep)

\* The orders of the during-match period (lines 172-173, 184-187).
DuringMatchOrders(orders_df, match_time, during_match_hours) ==
    LET during_match_start == match_time - Hours(during_match_hours \div 2)
        during_match_end == match_time + Hours(during_match_hours \div 2)
        Keep(o) == o.timestamp.n >= during_match_start /\ o.timestamp.n <= during_match_end
    IN SelectSeq(orders_df, Keep)

\* The orders of the post-match period (lines 175-176, 189-192).
PostMatchOrders(orders_df, match_time, post_match_hours) ==
    LET post_match_start == match_time
        post_match_end == match_time + Hours(post_match_hours)
        Keep(o) == o.timestamp.n > post_match_start /\ o.timestamp.n <= post_match_end
    IN SelectSeq(orders_df, Keep)

\* The body of the loop over matches: the row of one match (lines 165-216).
MatchMetrics(orders_df, match, pre_match_hours, during_match_hours, post_match_hours) ==
    LET match_time == match.timestamp.n
        pre_match_metrics ==
            CalculatePeriodMetrics(
                PreMatchOrders(orders_df, match_time, pre_match_hours), "pre_match")
        during_match_metrics ==
            CalculatePeriodMetrics(
                DuringMatchOrders(orders_df, match_time, during_match_hours), "during_match")
        post_match_metrics ==
            CalculatePeriodMetrics(
                PostMatchOrders(orders_df, match_time, post_match_hours), "post_match")
    IN [match_id |-> match.match_id,
        match_timestamp |-> match.timestamp,
        home_team |-> match.home_team,
        away_team |-> match.away_team,
        home_score |-> match.home_score,
        away_score |-> match.away_score,
        event_type |-> match.event_type,
        match_significance |-> match.match_significance,
        data_source |-> match.data_source,
        winner |-> GetMatchWinner(match.home_score.n, match.away_score.n),
        total_goals |-> PyInt(match.home_score.n + match.away_score.n),
        is_high_scoring |-> PyBool((match.home_score.n + match.away_score.n) >= 3)]
       @@ pre_match_metrics @@ during_match_metrics @@ post_match_metrics

\* A variant without the guard for empty input: building the orders frame from no
\* records leaves it without a 'timestamp' column, and the KeyError is re-raised.
CalculateMatchPeriodMetricsNoGuard(orders_l, matches_l, pre_match_hours, during_match_hours, post_match_hours) ==
    IF orders_l = <<>> \/ matches_l = <<>>
    THEN Raised("CorrelationAnalysisError")
    ELSE Returned([i \in 1..Len(matches_l) |->
                    MatchMetrics(orders_l, matches_l[i], pre_match_hours,
                                 during_match_hours, post_match_hours)])

\* CorrelationAnalyzer.calculate_match_period_metrics
CalculateMatchPeriodMetrics(orders_l, matches_l, pre_match_hours, during_match_hours, post_match_hours) ==
    IF orders_l = <<>> \/ matches_l = <<>>
    THEN Returned(<<>>)
    ELSE Returned([i \in 1..Len(matches_l) |->
                    MatchMetrics(orders_l, matches_l[i], pre_match_hours,
                                 during_match_hours, post_match_hours)])
-----------------------------------------------------------------------------
(* Calls of calculate_match_period_metrics: the input lists are drawn from small
   catalogues of valid records, the window sizes from 1..MaxHours *)

MaxOrders == 2
MaxMatches == 2
MaxHours == 3

\* The ticks at which the catalogue has an order.
OrderTimes == -7..7

\* One valid order per tick; amount, quantity, location and provenance vary with it.
OrderAt(t) ==
    DominosOrder(PyStr("ORDER"), PyDatetime(t),
                 PyStr(IF t < 0 THEN "Downtown" ELSE "Uptown"),
                 PyFloat((10 + (t % 3) * 5) * Scale), <<"Margherita">>,
                 PyInt(1 + (t % 2)), IF t % 2 = 0 THEN "real" ELSE "mock")

OrderCatalogue == {OrderAt(t) : t \in OrderTimes}

\* Two valid matches, an hour and a half apart.
MatchCatalogue ==
    {m \in {FootballMatch(PyStr("MATCH1"), PyDatetime(0), PyStr("Arsenal"),
                          PyStr("Chelsea"), PyInt(2), PyInt(1), "win", "regular", "real"),
            FootballMatch(PyStr("MATCH2"), PyDatetime(3), PyStr("Liverpool"),
                          PyStr("Everton"), PyInt(1), PyInt(1), "draw", "final", "mock")} :
        FootballMatchValidate(m) = "ok"}

\* The lists of at most n elements of S.
ListsUpTo(S, n) == UNION {[1..k -> S] : k \in 0..n}

\* The order lists are enumerated in timestamp order: the analyzer only filters the
\* list by timestamp and aggregates what it keeps (count, sum, mean, distinct count).
ChronologicalOrderLists ==
    {l \in ListsUpTo(OrderCatalogue, MaxOrders) :
        \A i \in 1..(Len(l) - 1) : l[i].timestamp.n <= l[i + 1].timestamp.n}

InitMetrics ==
    /\ orders \in ChronologicalOrderLists
    /\ matches \in ListsUpTo(MatchCatalogue, MaxMatches)
    /\ args = <<>> /\ rows = NotCalled
    /\ attempt = NoCall /\ made = NoObject /\ raised = "none"
    /\ metrics_df = <<>> /\ stats_clips = TRUE /\ findings = NotCalled
    /\ NoObjects /\ ToolsIdle /\ FilterIdle /\ InsightIdle

\* The default of pre_match_hours, during_match_hours and post_match_hours.
DefaultHours == 2

\* The window sizes of a call: each window reads its own size only, so the calls keep
\* some sizes at the default and give the others one common value of 1..MaxHours.
HoursArgs ==
    {a \in (1..MaxHours) \X (1..MaxHours) \X (1..MaxHours) :
        Cardinality({a[1], a[2], a[3]} \ {DefaultHours}) <= 1}

\* analyzer.calculate_match_period_metrics(orders, matches, pre, during, post)
CalculateMetrics ==
    /\ rows = NotCalled
    /\ \E a \in HoursArgs :
        LET pre_match_hours == a[1]
            during_match_hours == a[2]
            post_match_hours == a[3]
        IN
        /\ args' = <<pre_match_hours, during_match_hours, post_match_hours>>
        /\ rows' = CalculateMatchPeriodMetrics(orders, matches, pre_match_hours,
                                               during_match_hours, post_match_hours)
    /\ UNCHANGED <<toolVars, orders, matches, modelVars, corrVars, heapVars, filterVars, insightVars>>

NextMetrics == CalculateMetrics

SpecMetrics == InitMetrics /\ [][NextMetrics]_vars

-----------------------------------------------------------------------------
(* Claims about calculate_match_period_metrics, checked under SpecMetrics *)

MetricsReturned == rows.status = "returned"

\* The indices of the orders whose timestamp satisfies InWindow.
OrdersWhere(InWindow(_)) ==
    {k \in 1..Len(orders) : InWindow(orders[k].timestamp.n)}

\* The windows as the specification defines them, for a match at tick T:
\* [T - pre, T), [T - during/2, T + during/2], (T, T + post], hours being 2 ticks.
SpecPre(T, t)    == T - 2 * args[1] <= t /\ t < T
SpecDuring(T, t) == T - args[2] <= t /\ t <= T + args[2]
SpecPost(T, t)   == T < t /\ t <= T + 2 * args[3]

\* C3 as stated: for every window size, each row counts in its pre-match window exactly
\* the orders with T - pre <= t < T, in its during-match window exactly those within half
\* of during_hours on each side of T, and in its post-match window exactly those with
\* T < t <= T + post.
C3_WindowMembership ==
    (MetricsReturned /\ orders # <<>>) =>
        \A i \in 1..Len(rows.value) :
            LET T == matches[i].timestamp.n
                InPre(t) == SpecPre(T, t)
                InDuring(t) == SpecDuring(T, t)
                InPost(t) == SpecPost(T, t)
                row == rows.value[i]
            IN /\ row.pre_match_order_count.n = Cardinality(OrdersWhere(InPre))
               /\ row.during_match_order_count.n = Cardinality(OrdersWhere(InDuring))
               /\ row.post_match_order_count.n = Cardinality(OrdersWhere(InPost))

MetricKeys ==
    {"pre_match_order_count", "pre_match_total_volume", "pre_match_avg_order_value",
     "pre_match_pizza_count", "pre_match_unique_locations", "pre_match_orders_per_hour",
     "during_match_order_count", "during_match_total_volume",
     "during_match_avg_order_value", "during_match_pizza_count",
     "during_match_unique_locations", "during_match_orders_per_hour",
     "post_match_order_count", "post_match_total_volume", "post_match_avg_order_value",
     "post_match_pizza_count", "post_match_unique_locations", "post_match_orders_per_hour"}

\* No metric of the row is missing, None or NaN.
RowComplete(row) ==
    /\ MetricKeys \subseteq DOMAIN row
    /\ \A key \in MetricKeys : row[key].ty \in {"int", "float"} /\ ~IsNaN(row[key])

\* The row's metrics of one period are the zero record: 0, 0.0, 0.0, 0, 0, 0.0.
PreZero(row) ==
    /\ row.pre_match_order_count = PyInt(0) /\ row.pre_match_total_volume = PyFloat(0)
    /\ row.pre_match_avg_order_value = PyFloat(0) /\ row.pre_match_pizza_count = PyInt(0)
    /\ row.pre_match_unique_locations = PyInt(0)
    /\ row.pre_match_orders_per_hour = PyFloat(0)
DuringZero(row) ==
    /\ row.during_match_order_count = PyInt(0) /\ row.during_match_total_volume = PyFloat(0)
    /\ row.during_match_avg_order_value = PyFloat(0)
    /\ row.during_match_pizza_count = PyInt(0)
    /\ row.during_match_unique_locations = PyInt(0)
    /\ row.during_match_orders_per_hour = PyFloat(0)
PostZero(row) ==
    /\ row.post_match_order_count = PyInt(0) /\ row.post_match_total_volume = PyFloat(0)
    /\ row.post_match_avg_order_value = PyFloat(0) /\ row.post_match_pizza_count = PyInt(0)
    /\ row.post_match_unique_locations = PyInt(0)
    /\ row.post_match_orders_per_hour = PyFloat(0)

\* Row i is the row of match i, complete, and zero in every window no order falls in.
RowZeroFilled(i) ==
    LET T == matches[i].timestamp.n
        InPre(t) == SpecPre(T, t)
        InDuring(t) == SpecDuring(T, t)
        InPost(t) == SpecPost(T, t)
        row == rows.value[i]
    IN /\ "match_id" \in DOMAIN row /\ row.match_id = matches[i].match_id
       /\ RowComplete(row)
       /\ OrdersWhere(InPre) = {} => PreZero(row)
       /\ OrdersWhere(InDuring) = {} => DuringZero(row)
       /\ OrdersWhere(InPost) = {} => PostZero(row)

\* C4 as stated: the call produces a row for every input match, each complete and with
\* the zero record in every window in which no order falls.
C4_RowPerMatchZeroFilled ==
    MetricsReturned =>
        /\ Len(rows.value) = Len(matches)
        /\ \A i \in 1..Len(rows.value) : RowZeroFilled(i)

\* C4 amended: when the order list is not empty, the call returns a row for every input
\* match, each complete (no metric missing or null) and holding order_count 0,
\* total_volume 0.0, avg_order_value 0.0, pizza_count 0, unique_locations 0 and
\* orders_per_hour 0.0 for every window in which no order falls.
C4_RowPerMatchZeroFilledGivenOrders ==
    /\ rows.status \in {"not_called", "returned"}
    /\ (MetricsReturned /\ orders # <<>>) =>
        /\ Len(rows.value) = Len(matches)
        /\ \A i \in 1..Len(rows.value) : RowZeroFilled(i)

\* C4 witness: two matches and an order that falls in no window of the second one.
C4_Witness ==
    /\ MetricsReturned /\ Len(orders) = 1 /\ Len(matches) = 2 /\ Len(rows.value) = 2
    /\ orders[1].timestamp.n = -7
    /\ matches[2].timestamp.n = 3
    /\ PreZero(rows.value[2]) /\ DuringZero(rows.value[2]) /\ PostZero(rows.value[2])

\* C5 as stated: in every row and window, orders_per_hour is the window's order_count
\* divided by the configured hours of that window.
C5_OrdersPerHourByDuration ==
    MetricsReturned =>
        \A i \in 1..Len(rows.value) :
            LET row == rows.value[i] IN
            /\ Num(row.pre_match_orders_per_hour) * args[1]
                 = Num(row.pre_match_order_count)
            /\ Num(row.during_match_orders_per_hour) * args[2]
                 = Num(row.during_match_order_count)
            /\ Num(row.post_match_orders_per_hour) * args[3]
                 = Num(row.post_match_order_count)

\* The orders placed at tick T, and those within reach of any window of a match at T.
OrdersAt(T) == {k \in 1..Len(orders) : orders[k].timestamp.n = T}
OrdersNear(T) ==
    {k \in 1..Len(orders) :
        LET t == orders[k].timestamp.n IN
        SpecPre(T, t) \/ SpecDuring(T, t) \/ SpecPost(T, t)}

\* C6: an order placed at the match time is selected for the during-match window and for
\* neither of the others, whatever the window sizes; so a row whose match has no order
\* within its windows but orders placed at the match time counts all of these in
\* during_match_order_count and has pre_match_order_count = post_match_order_count = 0.
C6_OrderAtMatchTime ==
    MetricsReturned =>
        \A i \in 1..Len(rows.value) :
            LET T == matches[i].timestamp.n
                row == rows.value[i]
            IN /\ \A k \in OrdersAt(T) :
                    /\ DuringMatchOrders(<<orders[k]>>, T, args[2]) = <<orders[k]>>
                    /\ PreMatchOrders(<<orders[k]>>, T, args[1]) = <<>>
                    /\ PostMatchOrders(<<orders[k]>>, T, args[3]) = <<>>
               /\ OrdersNear(T) = OrdersAt(T) =>
                    /\ row.during_match_order_count = PyInt(Cardinality(OrdersAt(T)))
                    /\ row.pre_match_order_count = PyInt(0)
                    /\ row.post_match_order_count = PyInt(0)

\* C6 witness: two matches, each with exactly one order, placed at its match time and
\* outside the other's windows; both rows read during 1, pre 0, post 0.
C6_Witness ==
    /\ MetricsReturned /\ Len(rows.value) = 2 /\ Len(orders) = 2
    /\ matches[1].timestamp.n # matches[2].timestamp.n
    /\ \A i \in 1..2 :
        /\ Cardinality(OrdersAt(matches[i].timestamp.n)) = 1
        /\ OrdersNear(matches[i].timestamp.n) = OrdersAt(matches[i].timestamp.n)
        /\ rows.value[i].during_match_order_count = PyInt(1)
        /\ rows.value[i].pre_match_order_count = PyInt(0)
        /\ rows.value[i].post_match_order_count = PyInt(0)

\* C7: a call with an empty order list or an empty match list returns an empty row set
\* and raises nothing.
C7_EmptyInputEmptyRows ==
    (rows # NotCalled /\ (orders = <<>> \/ matches = <<>>)) => rows = Returned(<<>>)

\* C7 witness: the call was made with matches but no orders, and returned no rows.
C7_Witness ==
    /\ rows = Returned(<<>>) /\ orders = <<>> /\ Len(matches) = 2 /\ args # <<>>
-----------------------------------------------------------------------------
(* scipy.stats.pearsonr and pointbiserialr, as the analyzer relies on them *)

RECURSIVE Gcd(_, _)
Gcd(a, b) == IF b = 0 THEN a ELSE Gcd(b, a % b)

Abs(x) == IF x < 0 THEN -x ELSE x

RECURSIVE GcdOf(_)
\* the greatest common divisor of the absolute values of a sequence of integers
GcdOf(xs) == IF xs = <<>> THEN 0 ELSE Gcd(Abs(Head(xs)), GcdOf(Tail(xs)))

\* A series in the largest unit that keeps its values whole: r does not depend on
\* the unit, and the sums below stay small.
InUnits(xs) ==
    LET g == GcdOf(xs) IN IF g = 0 THEN xs ELSE [i \in 1..Len(xs) |-> xs[i] \div g]

RECURSIVE Dot(_, _)
\* sum of xs[i] * ys[i]
Dot(xs, ys) ==
    IF xs = <<>> THEN 0 ELSE Head(xs) * Head(ys) + Dot(Tail(xs), Tail(ys))

RECURSIVE Sum(_)
Sum(xs) == IF xs = <<>> THEN 0 ELSE Head(xs) + Sum(Tail(xs))

\* the whole part of the square root of n, for 0 <= n <= Scale * Scale
ISqrt(n) == CHOOSE k \in 0..Scale : k * k <= n /\ (k + 1) * (k + 1) > n

\* (2/pi) * asin(k / Scale) in 1/Scale units, for k = 0..Scale
TwoOverPiAsin ==
    <<
      0, 1, 1, 2, 3, 3, 4, 4, 5, 6, 6, 7, 8, 8, 9, 10, 10, 11, 12, 12,
      13, 13, 14, 15, 15, 16, 17, 17, 18, 19, 19, 20, 21, 21, 22, 23, 23, 24, 25, 26,
      26, 27, 28, 28, 29, 30, 30, 31, 32, 33, 33, 34, 35, 36, 36, 37, 38, 39, 39, 40,
      41, 42, 43, 43, 44, 45, 46, 47, 48, 48, 49, 50, 51, 52, 53, 54, 55, 56, 57, 58,
      59, 60, 61, 62, 63, 65, 66, 67, 68, 70, 71, 73, 74, 76, 78, 80, 82, 84, 87, 91,
      100
    >>

\* The two-sided p-value of a coefficient |r| = ar / Scale over n pairs: 1 for two
\* pairs, else that of Student's t with n - 2 degrees of freedom, in closed form for
\* n = 3 to 6 (for n = 5: 1 - (2/pi) * (asin r + r * sqrt(1 - r * r)); for n = 6:
\* 1 - r * (3 - r * r) / 2).
PValue(n, ar) ==
    CASE n = 2 -> Scale
      [] n > 2 /\ ar >= Scale -> 0
      [] ar < Scale /\ n = 3 -> Scale - TwoOverPiAsin[ar + 1]
      [] ar < Scale /\ n = 4 -> Scale - ar
      [] ar < Scale /\ n = 5 ->
            LET p == Scale - TwoOverPiAsin[ar + 1]
                     - (6366 * ar * ISqrt(Scale * Scale - ar * ar)) \div (10000 * Scale)
            IN IF p < 0 THEN 0 ELSE p
      [] ar < Scale /\ n = 6 ->
            Scale - (ar * (3 * Scale * Scale - ar * ar)) \div (2 * Scale * Scale)

\* r * r in 1/Scale units, rounded down, for num = cov * cov * Scale and den = vx * vy
RSquared(num, den) == (num \div den) * Scale + ((num % den) * Scale) \div den

\* The pair (r, p) for a coefficient of size ar / Scale over n pairs.
Statistic(n, negative, ar) ==
    [r |-> PyFloat(IF negative THEN -ar ELSE ar), p |-> PyFloat(PValue(n, ar))]

\* (r, p) from n times the co-moment and the two second moments of the series. The
\* library clips r to [-1, 1]; the analyzer does not rely on that, and
\* stats_clips = FALSE stands for a library that lets the rounding of a perfect
\* correlation through.
PearsonOfMoments(n, cov, vx, vy) ==
    IF vx = 0 \/ vy = 0 THEN [r |-> PyNaN, p |-> PyNaN]
    ELSE IF cov * cov = vx * vy /\ ~stats_clips
         THEN [r |-> PyFloat(IF cov < 0 THEN -(Scale + 1) ELSE Scale + 1), p |-> PyFloat(0)]
    ELSE Statistic(n, cov < 0, ISqrt(RSquared(cov * cov * Scale, vx * vy)))

PearsonOfUnits(n, xs, ys) ==
    PearsonOfMoments(n, n * Dot(xs, ys) - Sum(xs) * Sum(ys),
                        n * Dot(xs, xs) - Sum(xs) * Sum(xs),
                        n * Dot(ys, ys) - Sum(ys) * Sum(ys))

\* stats.pearsonr(x, y) on two series of numbers of equal length n >= 3: the pair
\* (r, p), NaN for both when either series is constant.
PearsonR(x, y) == PearsonOfUnits(Len(x), InUnits(x), InUnits(y))

\* stats.pointbiserialr(x, y): pearsonr with the booleans of x read as 0 and 1
PointBiserialR(x, y) == PearsonR(x, y)
-----------------------------------------------------------------------------
(* calculate_correlation_coefficients: correlation_analyzer.py *)

\* metrics_df[name]
Column(df, name) == [i \in 1..Len(df) |-> df[i][name]]

\* The keys of outcome_variables, in insertion order.
outcome_names ==
    <<"home_wins", "away_wins", "draws", "high_scoring_matches", "total_goals",
      "tournament_matches", "final_matches">>

\* outcome_variables[name]: a column of booleans, or of integers for total_goals
OutcomeData(df, name) ==
    CASE name = "home_wins" -> [i \in 1..Len(df) |-> PyBool(df[i].winner = "home")]
      [] name = "away_wins" -> [i \in 1..Len(df) |-> PyBool(df[i].winner = "away")]
      [] name = "draws" -> [i \in 1..Len(df) |-> PyBool(df[i].winner = "draw")]
      [] name = "high_scoring_matches" -> Column(df, "is_high_scoring")
      [] name = "total_goals" -> Column(df, "total_goals")
      [] name = "tournament_matches" ->
            [i \in 1..Len(df) |-> PyBool(df[i].match_significance = "tournament")]
      [] name = "final_matches" ->
            [i \in 1..Len(df) |-> PyBool(df[i].match_significance = "final")]

\* The keys of volume_variables, in insertion order; each names its own column.
volume_names ==
    <<"pre_match_order_count", "during_match_order_count", "post_match_order_count",
      "pre_match_total_volume", "during_match_total_volume", "post_match_total_volume",
      "pre_match_orders_per_hour", "during_match_orders_per_hour",
      "post_match_orders_per_hour">>

\* The time window read off the name of the volume variable (lines 421-429).
TimeWindowOf(volume_name) ==
    IF volume_name \in {"pre_match_order_count", "pre_match_total_volume",
                        "pre_match_orders_per_hour"} THEN "pre_match"
    ELSE IF volume_name \in {"during_match_order_count", "during_match_total_volume",
                             "during_match_orders_per_hour"} THEN "during_match"
    ELSE IF volume_name \in {"post_match_order_count", "post_match_total_volume",
                             "post_match_orders_per_hour"} THEN "post_match"
    ELSE "full_match"

\* CorrelationAnalyzer._get_correlation_strength and
\* CorrelationResult.get_strength_description (the same thresholds)
GetCorrelationStrength(abs_correlation) ==
    IF abs_correlation * 10 < 1 * Scale THEN "negligible"
    ELSE IF abs_correlation * 10 < 3 * Scale THEN "weak"
    ELSE IF abs_correlation * 10 < 5 * Scale THEN "moderate"
    ELSE IF abs_correlation * 10 < 7 * Scale THEN "strong"
    ELSE "very strong"

\* CorrelationResult.get_direction_description
GetDirectionDescription(self) ==
    IF Num(self.correlation_coefficient) > 0 THEN "positive"
    ELSE IF Num(self.correlation_coefficient) < 0 THEN "negative"
    ELSE "no correlation"

\* A formatted string, kept as the values its template was filled with.
PyText(template, parts) == [ty |-> "str", n |-> 0, s |-> template, parts |-> parts]

\* CorrelationAnalyzer._generate_pattern_description
GeneratePatternDescription(correlation_coef, p_value, outcome_name, volume_name, time_window) ==
    LET strength == GetCorrelationStrength(Abs(Num(correlation_coef)))
        direction == IF Num(correlation_coef) > 0 THEN "positive"
                     ELSE IF Num(correlation_coef) < 0 THEN "negative" ELSE "no"
        significance == IF Num(p_value) * 100 < 5 * Scale THEN "significant" ELSE "not significant"
    IN PyText("{} {} correlation between {} and {} during {} period (r={}, p={}, {})",
              <<strength, direction, outcome_name, volume_name, time_window,
                correlation_coef, p_value, significance>>)

\* CorrelationAnalyzer._calculate_data_quality_score
CalculateDataQualityScore(df) ==
    IF df = <<>> THEN PyFloat(0)
    ELSE LET real_data_count == Cardinality({i \in 1..Len(df) : df[i].data_source = "real"})
             total_count == Len(df)
         IN PyFloat((real_data_count * 100 * Scale) \div total_count)

\* str(uuid.uuid4()): a fresh identifier, told apart by the call that drew it
Uuid4(outcome_name, volume_name) ==
    [ty |-> "str", n |-> 0, s |-> "uuid4", of |-> <<outcome_name, volume_name>>]

\* pd.isna
IsNa(x) == IsNaN(x) \/ x.ty = "NoneType"

\* The positions of the rows that valid_mask keeps, in order.
ValidPositions(volume_data, outcome_data) ==
    LET Keep(i) == ~(IsNa(volume_data[i]) \/ IsNa(outcome_data[i]))
    IN SelectSeq([i \in 1..Len(volume_data) |-> i], Keep)

\* The statistics call of lines 410-415 on the cleaned series.
CorrelationOf(clean_volume, clean_outcome) ==
    LET vol == [i \in 1..Len(clean_volume) |-> Num(clean_volume[i])]
        out == [i \in 1..Len(clean_outcome) |-> Num(clean_outcome[i])]
    IN IF \A i \in 1..Len(clean_outcome) : clean_outcome[i].ty = "bool"
       THEN PointBiserialR(out, vol)
       ELSE PearsonR(vol, out)

\* Lines 432-448: the CorrelationResult built from the statistics; a ValueError of its
\* constructor is caught by the except clause, which logs a warning and returns None.
NewResult(self) == IF CorrelationResultValidate(self) # "ok" THEN PyNone ELSE self

ResultOf(correlation_coef, p_value, time_window, n, outcome_name, volume_name, df) ==
    NewResult(CorrelationResultPostInit(
        CorrelationResult(
            Uuid4(outcome_name, volume_name), correlation_coef, p_value, time_window,
            GeneratePatternDescription(correlation_coef, p_value, outcome_name,
                                       volume_name, time_window),
            CalculateDataQualityScore(df), PyDatetime(Now), PyInt(n))))

\* A variant that turns a NaN coefficient or p-value into 0.0 instead of giving up.
ResultOfStatisticNanToNum(stat, n, outcome_name, volume_name, df) ==
    ResultOf(IF IsNaN(stat.r) THEN PyFloat(0) ELSE stat.r,
             IF IsNaN(stat.p) THEN PyFloat(0) ELSE stat.p,
             TimeWindowOf(volume_name), n, outcome_name, volume_name, df)

\* Lines 417-448: None for a NaN coefficient or p-value, else the result.
ResultOfStatistic(stat, n, outcome_name, volume_name, df) ==
    IF IsNaN(stat.r) \/ IsNaN(stat.p) THEN PyNone
    ELSE ResultOf(stat.r, stat.p, TimeWindowOf(volume_name), n, outcome_name, volume_name, df)

\* A variant that asks for two data points only.
CorrelationOfCleanTwoPoints(clean_volume, clean_outcome, outcome_name, volume_name, df) ==
    IF Len(clean_volume) < 2 THEN PyNone
    ELSE ResultOfStatistic(CorrelationOf(clean_volume, clean_outcome), Len(clean_volume),
                           outcome_name, volume_name, df)

\* Lines 406-448 on the cleaned series: at least 3 data points are needed.
CorrelationOfClean(clean_volume, clean_outcome, outcome_name, volume_name, df) ==
    IF Len(clean_volume) < 3 THEN PyNone
    ELSE ResultOfStatistic(CorrelationOf(clean_volume, clean_outcome), Len(clean_volume),
                           outcome_name, volume_name, df)

\* series[valid_mask]
Masked(series, keep) == [j \in 1..Len(keep) |-> series[keep[j]]]

CorrelationOfValid(keep, volume_data, outcome_data, outcome_name, volume_name, df) ==
    CorrelationOfClean(Masked(volume_data, keep), Masked(outcome_data, keep),
                       outcome_name, volume_name, df)

\* CorrelationAnalyzer._calculate_single_correlation: the result, or None.
CalculateSingleCorrelation(volume_data, outcome_data, outcome_name, volume_name, df) ==
    CorrelationOfValid(ValidPositions(volume_data, outcome_data), volume_data,
                       outcome_data, outcome_name, volume_name, df)

\* A result of _calculate_single_correlation with its time_window and
\* pattern_description re-assigned (lines 468-470, 482-484), as a list; none for None.
Reassigned(corr, time_window, template) ==
    IF corr = PyNone THEN <<>>
    ELSE <<[corr EXCEPT
              !.time_window = time_window,
              !.pattern_description =
                  PyText(template,
                         <<GetCorrelationStrength(Abs(Num(corr.correlation_coefficient))),
                           GetDirectionDescription(corr)>>)]>>

\* One period-to-period correlation (lines 468-479, 482-493).
PeriodCorrelation(df, volume_name, time_window, template) ==
    Reassigned(CalculateSingleCorrelation(Column(df, volume_name),
                                          Column(df, "post_match_order_count"),
                                          "post_match_orders", volume_name, df),
               time_window, template)

\* CorrelationAnalyzer._calculate_period_correlations
CalculatePeriodCorrelations(df) ==
    PeriodCorrelation(df, "pre_match_order_count", "pre_to_post_match",
        "Correlation between pre-match and post-match order volumes: {} {} relationship")
    \o PeriodCorrelation(df, "during_match_order_count", "during_to_post_match",
        "Correlation between during-match and post-match order volumes: {} {} relationship")

\* The pairs of the two nested loops (lines 312-313), in iteration order.
PairAt(k) ==
    [outcome_name |-> outcome_names[((k - 1) \div Len(volume_names)) + 1],
     volume_name |-> volume_names[((k - 1) % Len(volume_names)) + 1]]

\* What _calculate_single_correlation returns for the k-th pair.
PairResult(df, k) ==
    CalculateSingleCorrelation(Column(df, PairAt(k).volume_name),
                               OutcomeData(df, PairAt(k).outcome_name),
                               PairAt(k).outcome_name, PairAt(k).volume_name, df)

\* CorrelationAnalyzer.calculate_correlation_coefficients
CalculateCorrelationCoefficients(df) ==
    IF df = <<>> THEN Returned(<<>>)
    ELSE LET all == [k \in 1..(Len(outcome_names) * Len(volume_names)) |-> PairResult(df, k)]
             NotNone(x) == x # PyNone
         IN Returned(SelectSeq(all, NotNone) \o CalculatePeriodCorrelations(df))

\* The objects _calculate_period_correlations received from
\* _calculate_single_correlation (lines 469-475, 483-489), as their constructor left them.
PeriodConstructed(df) ==
    LET NotNone(x) == x # PyNone
    IN SelectSeq(<<CalculateSingleCorrelation(Column(df, "pre_match_order_count"),
                                              Column(df, "post_match_order_count"),
                                              "post_match_orders", "pre_match_order_count", df),
                   CalculateSingleCorrelation(Column(df, "during_match_order_count"),
                                              Column(df, "post_match_order_count"),
                                              "post_match_orders", "during_match_order_count", df)>>,
                 NotNone)

\* The objects of a returned list as their constructors left them: those of the pairs
\* are appended as they are (lines 322-323), those of the periods are re-labelled.
ConstructedOf(df, returned) ==
    IF df = <<>> THEN <<>>
    ELSE SubSeq(returned, 1, Len(returned) - Len(PeriodConstructed(df)))
         \o PeriodConstructed(df)

-----------------------------------------------------------------------------
(* Calls of calculate_correlation_coefficients on frames of metrics rows *)

MaxRows == 3

\* Two valid matches: a high-scoring home win and a goalless draw.
SweepMatches ==
    {m \in {FootballMatch(PyStr("MATCH1"), PyDatetime(0), PyStr("Arsenal"),
                          PyStr("Chelsea"), PyInt(2), PyInt(1), "win", "regular", "real"),
            FootballMatch(PyStr("MATCH2"), PyDatetime(0), PyStr("Liverpool"),
                          PyStr("Everton"), PyInt(0), PyInt(0), "draw", "tournament", "mock")} :
        FootballMatchValidate(m) = "ok"}

\* The orders around one match: a single order at the match time, one more before the
\* match, or four orders spread over the three windows.
SweepOrderLists ==
    {<<OrderAt(0)>>,
     <<OrderAt(-3), OrderAt(0)>>,
     <<OrderAt(-3), OrderAt(0), OrderAt(1), OrderAt(3)>>}

\* The rows calculate_match_period_metrics computes, with the default windows, for a
\* match and the orders around it; matches far enough apart share no order, so a
\* frame may hold any of these rows side by side.
RowCatalogue ==
    {MatchMetrics(ol, m, DefaultHours, DefaultHours, DefaultHours) :
        ol \in SweepOrderLists, m \in SweepMatches}

\* A row whose post_match_order_count is missing: the frame is an argument of
\* calculate_correlation_coefficients, and line 402 provides for missing values.
MissingRow ==
    [MatchMetrics(<<OrderAt(-3), OrderAt(0), OrderAt(1), OrderAt(3)>>,
                  FootballMatch(PyStr("MATCH1"), PyDatetime(0), PyStr("Arsenal"),
                                PyStr("Chelsea"), PyInt(2), PyInt(1), "win", "regular", "real"),
                  DefaultHours, DefaultHours, DefaultHours)
        EXCEPT !.post_match_order_count = PyNaN]

FrameRows == RowCatalogue \cup {MissingRow}

InitSweep ==
    /\ metrics_df \in ListsUpTo(FrameRows, MaxRows)
    /\ stats_clips \in BOOLEAN
    /\ findings = NotCalled
    /\ attempt = NoCall /\ made = NoObject /\ raised = "none"
    /\ orders = <<>> /\ matches = <<>> /\ args = <<>> /\ rows = NotCalled
    /\ NoObjects /\ ToolsIdle /\ FilterIdle /\ InsightIdle

\* analyzer.calculate_correlation_coefficients(metrics_df)
CalculateCorrelations ==
    /\ findings = NotCalled
    /\ findings' = CalculateCorrelationCoefficients(metrics_df)
    /\ heap' = findings'.value
    /\ constructed' = ConstructedOf(metrics_df, findings'.value)
    /\ UNCHANGED <<toolVars, metrics_df, stats_clips, modelVars, metricsVars, filterVars, insightVars>>

NextSweep == CalculateCorrelations

SpecSweep == InitSweep /\ [][NextSweep]_vars

-----------------------------------------------------------------------------
(* Claims about calculate_correlation_coefficients, checked under SpecSweep *)

SweepReturned == findings.status = "returned"

NumPairs == Len(outcome_names) * Len(volume_names)

\* The positions of the rows of the frame in which neither variable of the k-th pair
\* is missing, and their number.
PairKeep(k) ==
    ValidPositions(Column(metrics_df, PairAt(k).volume_name),
                   OutcomeData(metrics_df, PairAt(k).outcome_name))

PairSize(k) == Len(PairKeep(k))

\* What the statistics call yields for the k-th pair, on those rows.
PairStat(k) ==
    CorrelationOf(Masked(Column(metrics_df, PairAt(k).volume_name), PairKeep(k)),
                  Masked(OutcomeData(metrics_df, PairAt(k).outcome_name), PairKeep(k)))

\* The findings of the outcome-versus-volume pair k: those whose description was
\* generated for its two names.
FindingsOfPair(k) ==
    {i \in 1..Len(findings.value) :
        /\ Len(findings.value[i].pattern_description.parts) = 8
        /\ findings.value[i].pattern_description.parts[3] = PairAt(k).outcome_name
        /\ findings.value[i].pattern_description.parts[4] = PairAt(k).volume_name}

InBounds(stat) == Between(-Scale, stat.r, Scale) /\ Between(0, stat.p, Scale)

\* C9: every finding calculate_correlation_coefficients returns has a coefficient in
\* [-1, 1] and a p-value in [0, 1]; a pair whose computation yields NaN or a value out
\* of range has no finding, and every other pair with three or more paired rows still
\* has its one finding, carrying the computed values.
C9_FindingsWithinBounds ==
    /\ findings.status \in {"not_called", "returned"}
    /\ SweepReturned =>
        /\ \A i \in 1..Len(findings.value) :
            /\ Between(-Scale, findings.value[i].correlation_coefficient, Scale)
            /\ Between(0, findings.value[i].statistical_significance, Scale)
        /\ \A k \in 1..NumPairs :
            PairSize(k) >= 3 =>
                LET stat == PairStat(k)
                    found == FindingsOfPair(k)
                IN IF InBounds(stat)
                   THEN /\ Cardinality(found) = 1
                        /\ \A i \in found :
                            /\ findings.value[i].correlation_coefficient = stat.r
                            /\ findings.value[i].statistical_significance = stat.p
                   ELSE found = {}

\* C9 witness: in one sweep a pair came out NaN and has no finding, and pairs after it
\* in the iteration order have theirs.
C9_Witness ==
    /\ SweepReturned /\ Len(metrics_df) >= 3
    /\ \E k \in 1..NumPairs, j \in 1..NumPairs :
        /\ k < j
        /\ PairSize(k) >= 3 /\ IsNaN(PairStat(k).r) /\ FindingsOfPair(k) = {}
        /\ FindingsOfPair(j) # {}

\* The series takes the same value in all rows.
Constant(series) == \A i \in 1..Len(series) : series[i] = series[1]

\* C10: a pair of which either variable takes one value in all rows has no finding; so
\* none is produced for high_scoring_matches against during_match_order_count when that
\* count is 1 for every match.  The same holds of the two period-to-period pairs.
C10_ZeroVarianceNoFinding ==
    SweepReturned =>
        /\ \A k \in 1..NumPairs :
            (\/ Constant(Column(metrics_df, PairAt(k).volume_name))
             \/ Constant(OutcomeData(metrics_df, PairAt(k).outcome_name)))
            => FindingsOfPair(k) = {}
        /\ \A w \in {"pre", "during"} :
            (\/ Constant(Column(metrics_df, w \o "_match_order_count"))
             \/ Constant(Column(metrics_df, "post_match_order_count")))
            => \A i \in 1..Len(findings.value) :
                   findings.value[i].time_window # w \o "_to_post_match"

\* C10 witness: three or more matches of which some are high scoring and some not, each
\* with during_match_order_count 1; the sweep produced findings, none of them for
\* high_scoring_matches against during_match_order_count.
C10_Witness ==
    /\ SweepReturned /\ Len(metrics_df) >= 3
    /\ \A i \in 1..Len(metrics_df) : metrics_df[i].during_match_order_count = PyInt(1)
    /\ ~Constant(Column(metrics_df, "is_high_scoring"))
    /\ Len(findings.value) > 0
    /\ \A i \in 1..Len(findings.value) :
        Len(findings.value[i].pattern_description.parts) = 8 =>
            ~(/\ findings.value[i].pattern_description.parts[3] = "high_scoring_matches"
              /\ findings.value[i].pattern_description.parts[4] = "during_match_order_count")

\* The paired rows of a period-to-period pair: w is "pre" or "during".
PeriodPairSize(w) ==
    Len(ValidPositions(Column(metrics_df, w \o "_match_order_count"),
                       Column(metrics_df, "post_match_order_count")))

PeriodFindings(w) ==
    {i \in 1..Len(findings.value) : findings.value[i].time_window = w \o "_to_post_match"}

\* C11: a pair left with fewer than 3 paired rows once the rows with a missing value
\* are dropped has no finding, the two period-to-period pairs included; the sweep
\* raises nothing and the other pairs still get their findings; a frame of fewer than
\* 3 rows yields the empty list.
C11_InsufficientDataSkipped ==
    /\ findings.status \in {"not_called", "returned"}
    /\ SweepReturned =>
        /\ \A k \in 1..NumPairs :
            IF PairSize(k) < 3 THEN FindingsOfPair(k) = {}
            ELSE FindingsOfPair(k) = {} => ~InBounds(PairStat(k))
        /\ \A w \in {"pre", "during"} : PeriodPairSize(w) < 3 => PeriodFindings(w) = {}
        /\ Len(metrics_df) < 3 => findings.value = <<>>

\* C11 witness: a frame of three rows, one of them without its post-match count: the
\* pairs with that count and both period-to-period pairs have no finding, and pairs
\* that come later in the sweep have theirs.
C11_Witness ==
    /\ SweepReturned /\ Len(metrics_df) = 3
    /\ \A w \in {"pre", "during"} : PeriodPairSize(w) = 2 /\ PeriodFindings(w) = {}
    /\ \E k \in 1..NumPairs, j \in 1..NumPairs :
        /\ k < j
        /\ PairSize(k) = 2 /\ FindingsOfPair(k) = {}
        /\ PairSize(j) = 3 /\ FindingsOfPair(j) # {}

-----------------------------------------------------------------------------
(* detect_statistical_significance: correlation_analyzer.py *)

\* CorrelationResult.is_significant: self.statistical_significance < alpha
IsSignificant(self, a) ==
    ~IsNaN(self.statistical_significance) /\ ~IsNaN(a)
    /\ Num(self.statistical_significance) < Num(a)

\* f"SIGNIFICANT: {result.pattern_description}"
SignificantText(pattern_description) ==
    [pattern_description EXCEPT !.s = "SIGNIFICANT: " \o pattern_description.s]

\* The CorrelationResult(...) call of lines 575-584, before __post_init__.
EnhancedResult(result) ==
    CorrelationResult(result.analysis_id, result.correlation_coefficient,
                      result.statistical_significance, result.time_window,
                      SignificantText(result.pattern_description), result.data_quality,
                      result.analysis_timestamp, result.sample_size)

\* The positions in a list of those elements that satisfy is_significant(alpha).
SignificantPositions(objects, results, a) ==
    LET Keep(i) == IsSignificant(objects[results[i]], a)
    IN SelectSeq([i \in 1..Len(results) |-> i], Keep)

\* A variant that keeps a result whose p-value equals alpha.
DetectStatisticalSignificanceInclusive(objects, results, a) ==
    LET Keep(i) == ~IsSignificant(objects[results[i]], a)
                   => objects[results[i]].statistical_significance = a
        picked == SelectSeq([i \in 1..Len(results) |-> i], Keep)
        enhanced == [j \in 1..Len(picked) |->
                        CorrelationResultPostInit(EnhancedResult(objects[results[picked[j]]]))]
    IN [objects |-> objects \o enhanced,
        born |-> enhanced,
        result |-> Returned([j \in 1..Len(picked) |-> Len(objects) + j])]

\* A variant that re-describes the significant results in place and returns them.
DetectStatisticalSignificanceInPlace(objects, results, a) ==
    LET picked == SignificantPositions(objects, results, a)
        hit == {results[picked[j]] : j \in 1..Len(picked)}
    IN [objects |-> [o \in 1..Len(objects) |->
                        IF o \in hit
                        THEN [objects[o] EXCEPT
                                !.pattern_description = SignificantText(@)]
                        ELSE objects[o]],
        born |-> <<>>,
        result |-> Returned([j \in 1..Len(picked) |-> results[picked[j]]])]

\* CorrelationAnalyzer.detect_statistical_significance on a list of positions in the
\* object table: the table afterwards, the objects constructed, and the outcome. A
\* ValueError of a constructor is re-raised as CorrelationAnalysisError (lines 591-592).
DetectStatisticalSignificance(objects, results, a) ==
    LET picked == SignificantPositions(objects, results, a)
        enhanced == [j \in 1..Len(picked) |->
                        CorrelationResultPostInit(EnhancedResult(objects[results[picked[j]]]))]
        failed == {j \in 1..Len(picked) : CorrelationResultValidate(enhanced[j]) # "ok"}
    IN IF failed # {}
       THEN LET first == CHOOSE j \in failed : \A k \in failed : j <= k
            IN [objects |-> objects \o SubSeq(enhanced, 1, first - 1),
                born |-> SubSeq(enhanced, 1, first - 1),
                result |-> Raised("CorrelationAnalysisError")]
       ELSE [objects |-> objects \o enhanced,
             born |-> enhanced,
             result |-> Returned([j \in 1..Len(picked) |-> Len(objects) + j])]

-----------------------------------------------------------------------------
(* Calls of detect_statistical_significance on lists of results *)

MaxResults == 3

\* The statistics of an input result: p-values around the usual alpha, and either an
\* outcome finding or a re-labelled period finding.
PValueChoices == {PyFloat(0), PyFloat(1), PyFloat(5), PyFloat(Scale \div 2)}

FindingChoices ==
    {[correlation_coefficient |-> PyFloat(75), time_window |-> "pre_match",
      pattern_description |-> PyStr("strong positive correlation")],
     [correlation_coefficient |-> PyFloat(-30), time_window |-> "pre_to_post_match",
      pattern_description |-> PyStr("Correlation between pre-match and post-match order volumes")]}

\* The i-th element of the list: a constructed CorrelationResult with an id of its own.
InputResult(i, finding, p_value) ==
    CorrelationResultPostInit(
        CorrelationResult(Uuid4("input", i), finding.correlation_coefficient, p_value,
                          finding.time_window, finding.pattern_description,
                          PyFloat(100 * Scale), PyDatetime(1), PyInt(5)))

InputLists ==
    UNION {{[i \in 1..n |-> InputResult(i, f[i], q[i])] :
              f \in [1..n -> FindingChoices], q \in [1..n -> PValueChoices]} :
           n \in 0..MaxResults}

AlphaArgs == {PyFloat(1), PyFloat(5), PyFloat(Scale)}

InitFilter ==
    /\ heap \in {l \in InputLists : \A i \in 1..Len(l) : CorrelationResultValidate(l[i]) = "ok"}
    /\ constructed = heap
    /\ correlation_results = [i \in 1..Len(heap) |-> i]
    /\ alpha \in AlphaArgs
    /\ significant = NotCalled
    /\ attempt = NoCall /\ made = NoObject /\ raised = "none"
    /\ orders = <<>> /\ matches = <<>> /\ args = <<>> /\ rows = NotCalled
    /\ metrics_df = <<>> /\ stats_clips = TRUE /\ findings = NotCalled
    /\ InsightIdle /\ ToolsIdle

\* analyzer.detect_statistical_significance(correlation_results, alpha)
DetectSignificance ==
    /\ significant = NotCalled
    /\ LET done == DetectStatisticalSignificance(heap, correlation_results, alpha)
       IN /\ heap' = done.objects
          /\ constructed' = constructed \o done.born
          /\ significant' = done.result
    /\ UNCHANGED <<toolVars, correlation_results, alpha, modelVars, metricsVars, corrVars, insightVars>>

NextFilter == DetectSignificance

SpecFilter == InitFilter /\ [][NextFilter]_vars

-----------------------------------------------------------------------------
(* Claims about detect_statistical_significance, checked under SpecFilter *)

FilterReturned == significant.status = "returned"

\* The analysis ids of the objects at the positions of a list.
IdsOf(refs) == {heap[refs[i]].analysis_id : i \in 1..Len(refs)}

BelowAlpha(ref) == Num(heap[ref].statistical_significance) < Num(alpha)

\* C12 as stated: the result of detect_statistical_significance is a strict subset of
\* the findings, by analysis_id; every member has p_value < alpha, and a finding whose
\* p_value equals alpha is not in the result.
C12_StrictSubsetBelowAlpha ==
    FilterReturned =>
        /\ IdsOf(significant.value) \subseteq IdsOf(correlation_results)
        /\ IdsOf(significant.value) # IdsOf(correlation_results)
        /\ \A j \in 1..Len(significant.value) : BelowAlpha(significant.value[j])
        /\ \A i \in 1..Len(correlation_results) :
            heap[correlation_results[i]].statistical_significance = alpha
            => heap[correlation_results[i]].analysis_id \notin IdsOf(significant.value)

\* C12, amended: the call returns; its result is a subset of the findings, by
\* analysis_id, made of exactly the findings with p_value < alpha, so it is a strict
\* subset exactly when some finding has p_value >= alpha; a finding whose p_value
\* equals alpha is not in the result.
C12_SubsetBelowAlpha ==
    /\ significant.status \in {"not_called", "returned"}
    /\ FilterReturned =>
        /\ IdsOf(significant.value) \subseteq IdsOf(correlation_results)
        /\ \A j \in 1..Len(significant.value) : BelowAlpha(significant.value[j])
        /\ \A i \in 1..Len(correlation_results) :
            heap[correlation_results[i]].analysis_id \in IdsOf(significant.value)
            <=> BelowAlpha(correlation_results[i])
        /\ IdsOf(significant.value) # IdsOf(correlation_results)
            <=> \E i \in 1..Len(correlation_results) : ~BelowAlpha(correlation_results[i])
        /\ \A i \in 1..Len(correlation_results) :
            heap[correlation_results[i]].statistical_significance = alpha
            => heap[correlation_results[i]].analysis_id \notin IdsOf(significant.value)

\* C12 witness: with alpha 0.05, a finding with p = 0.05 was left out and one with
\* p = 0.01 was kept.
C12_Witness ==
    /\ FilterReturned /\ alpha = PyFloat(5)
    /\ \E i, k \in 1..Len(correlation_results) :
        /\ heap[correlation_results[i]].statistical_significance = PyFloat(5)
        /\ heap[correlation_results[i]].analysis_id \notin IdsOf(significant.value)
        /\ heap[correlation_results[k]].statistical_significance = PyFloat(1)
        /\ heap[correlation_results[k]].analysis_id \in IdsOf(significant.value)

\* C13: detect_statistical_significance leaves every element of its input list as it
\* was, in every field; each finding it returns is a new object, equal to its original
\* in analysis_id, coefficient, p-value, time window, data quality, timestamp and
\* sample size, with the original description after the prefix "SIGNIFICANT: ".
C13_InputUnchangedNewInstances ==
    FilterReturned =>
        /\ \A i \in 1..Len(correlation_results) :
            heap[correlation_results[i]] = constructed[correlation_results[i]]
        /\ \A j \in 1..Len(significant.value) :
            /\ \A i \in 1..Len(correlation_results) :
                significant.value[j] # correlation_results[i]
            /\ \E i \in 1..Len(correlation_results) :
                LET new == heap[significant.value[j]]
                    old == heap[correlation_results[i]]
                IN /\ new.analysis_id = old.analysis_id
                   /\ new.correlation_coefficient = old.correlation_coefficient
                   /\ new.statistical_significance = old.statistical_significance
                   /\ new.time_window = old.time_window
                   /\ new.data_quality = old.data_quality
                   /\ new.analysis_timestamp = old.analysis_timestamp
                   /\ new.sample_size = old.sample_size
                   /\ new.pattern_description.ty = "str"
                   /\ new.pattern_description.s
                        = "SIGNIFICANT: " \o old.pattern_description.s

\* C13 witness: two findings of a list of three came back, in new objects.
C13_Witness ==
    /\ FilterReturned
    /\ Len(correlation_results) = 3 /\ Len(significant.value) = 2
    /\ Len(heap) = 5
    /\ \A i \in 1..3 : heap[i] = constructed[i]

\* C14 as stated: no operation of the engine changes a field of a constructed
\* CorrelationResult in place: every object has the fields its constructor left.
C14_NoFieldChangedInPlace ==
    \A i \in 1..Len(heap) : i <= Len(constructed) /\ heap[i] = constructed[i]

-----------------------------------------------------------------------------
(* analyze_temporal_patterns: insight_generator.py *)

\* The dataclass fields, in declaration order; the class validates nothing.
TemporalPattern(pattern_id, time_period, pattern_type, magnitude, confidence, description, data_source_breakdown, sample_size) ==
    [cls |-> "TemporalPattern", pattern_id |-> pattern_id, time_period |-> time_period,
     pattern_type |-> pattern_type, magnitude |-> magnitude, confidence |-> confidence,
     description |-> description, data_source_breakdown |-> data_source_breakdown,
     sample_size |-> sample_size]

\* min(x, 100): x unless 100 is smaller
Min100(x) == IF 100 * Scale < Num(x) THEN PyInt(100) ELSE x

\* num / den * 100 as a float, rounded down to 1/Scale
Percent(num, den) == PyFloat((num * 100 * Scale) \div den)

\* InsightGenerator._calculate_pattern_confidence
CalculatePatternConfidence(pattern_instances, total_instances) ==
    IF total_instances = 0 THEN PyFloat(0)
    ELSE LET capped == IF pattern_instances > 10 THEN 10 ELSE pattern_instances
             v == (pattern_instances * capped * Scale) \div (total_instances * 10)
         IN PyFloat(IF v > Scale THEN Scale ELSE v)

\* InsightGenerator._calculate_source_breakdown(data_subset, 'data_source')
CalculateSourceBreakdown(data_subset) ==
    IF data_subset = <<>> THEN [real |-> PyFloat(0), mock |-> PyFloat(0)]
    ELSE LET Count(src) == Cardinality({i \in 1..Len(data_subset) :
                                           data_subset[i].data_source = src})
         IN [real |-> Percent(Count("real"), Len(data_subset)),
             mock |-> Percent(Count("mock"), Len(data_subset))]

\* frame[mask]: the rows at the positions of a set, in order
RowsAt(df, mask) ==
    LET Keep(i) == i \in mask
        kept == SelectSeq([i \in 1..Len(df) |-> i], Keep)
    IN [j \in 1..Len(kept) |-> df[kept[j]]]

\* the sum of the values at the positions of a set
SumAt(xs, mask) == Sum(RowsAt(xs, mask))

\* x lies more than two sample standard deviations above the mean of a series of n
\* values with sum s and sum of squares q: x > mean + 2 * std, with
\* std * std = (n * q - s * s) / (n * (n - 1)).
AboveTwoStd(x, n, s, q) ==
    n * x - s > 0 /\ (n * x - s) * (n * x - s) * (n - 1) > 4 * n * (n * q - s * s)

\* x < max(0, mean - 2 * std)
BelowDipThreshold(x, n, s, q) == x < 0 \/ AboveTwoStd(-x, n, -s, q)

\* The spike pattern of lines 182-196, or none.
SpikePattern(xs, spikes, period, metric_type, df) ==
    IF spikes = {} THEN <<>>
    ELSE <<TemporalPattern(
             Uuid4(period, <<metric_type, "spike">>), period, "spike",
             Min100(IF Sum(xs) > 0
                    THEN Percent(SumAt(xs, spikes) * Len(xs) - Sum(xs) * Cardinality(spikes),
                                 Sum(xs) * Cardinality(spikes))
                    ELSE PyInt(0)),
             CalculatePatternConfidence(Cardinality(spikes), Len(xs)),
             PyText("Significant {} spikes detected in {} period ({} instances)",
                    <<metric_type, period, Cardinality(spikes)>>),
             CalculateSourceBreakdown(RowsAt(df, spikes)), PyInt(Len(xs)))>>

\* The dip pattern of lines 198-216, or none.
DipPattern(xs, dips, period, metric_type, df) ==
    IF dips = {} THEN <<>>
    ELSE <<TemporalPattern(
             Uuid4(period, <<metric_type, "dip">>), period, "dip",
             Min100(IF Sum(xs) > 0
                    THEN Percent(Sum(xs) * Cardinality(dips) - SumAt(xs, dips) * Len(xs),
                                 Sum(xs) * Cardinality(dips))
                    ELSE PyInt(0)),
             CalculatePatternConfidence(Cardinality(dips), Len(xs)),
             PyText("Significant {} dips detected in {} period ({} instances)",
                    <<metric_type, period, Cardinality(dips)>>),
             CalculateSourceBreakdown(RowsAt(df, dips)), PyInt(Len(xs)))>>

\* stats.linregress(x, y): r and p; r is 0 when a series is constant, and is clipped
\* to [-1, 1].
LinRegress(n, cov, vx, vy) ==
    IF vx = 0 \/ vy = 0 THEN [r |-> PyFloat(0), p |-> PyFloat(Scale)]
    ELSE Statistic(n, cov < 0, ISqrt(RSquared(cov * cov * Scale, vx * vy)))

\* The trend pattern of lines 218-236 from the regression, or none.
TrendOf(reg, n, period, metric_type, df) ==
    IF Abs(Num(reg.r)) * 10 > 3 * Scale /\ Num(reg.p) * 100 < 5 * Scale
    THEN <<TemporalPattern(
             Uuid4(period, <<metric_type, "trend">>), period, "trend",
             PyFloat(Abs(Num(reg.r)) * 100), PyFloat(Scale - Num(reg.p)),
             PyText("{} trend in {} during {} period (r={})",
                    <<IF Num(reg.r) > 0 THEN "Increasing" ELSE "Decreasing",
                      metric_type, period, reg.r>>),
             CalculateSourceBreakdown(df), PyInt(n))>>
    ELSE <<>>

\* Lines 219-236: the regression of the series on 0, 1, ..., n - 1, from five values on.
TrendPattern(xs, ts, period, metric_type, df) ==
    IF Len(xs) >= 5
    THEN TrendOf(LinRegress(Len(xs), Len(xs) * Dot(ts, xs) - Sum(ts) * Sum(xs),
                            Len(xs) * Dot(ts, ts) - Sum(ts) * Sum(ts),
                            Len(xs) * Dot(xs, xs) - Sum(xs) * Sum(xs)),
                 Len(xs), period, metric_type, df)
    ELSE <<>>

\* Lines 173-236 on the numbers of the series, in a unit that keeps them whole.
PeriodPatternsOf(xs, period, metric_type, df) ==
    SpikePattern(xs, {i \in 1..Len(xs) : AboveTwoStd(xs[i], Len(xs), Sum(xs), Dot(xs, xs))},
                 period, metric_type, df)
    \o DipPattern(xs, {i \in 1..Len(xs) : BelowDipThreshold(xs[i], Len(xs), Sum(xs), Dot(xs, xs))},
                  period, metric_type, df)
    \o TrendPattern(xs, [i \in 1..Len(xs) |-> i - 1], period, metric_type, df)

\* InsightGenerator._analyze_period_patterns; failed tells that a call inside the try
\* block raised, which the except clause logs.
AnalyzePeriodPatterns(data_series, period, metric_type, df, failed) ==
    IF failed \/ Len(data_series) < 3 THEN <<>>
    ELSE PeriodPatternsOf(InUnits([i \in 1..Len(data_series) |-> Num(data_series[i])]),
                          period, metric_type, df)

\* series > series.quantile(0.75), with the quantile interpolated linearly between the
\* sorted values around position 0.75 * (n - 1): the positions of the values above it.
AboveThirdQuartile(xs) ==
    LET sorted == SortSeq(xs, LAMBDA a, b : a < b)
        lo == (3 * (Len(xs) - 1)) \div 4 + 1
        rest == (3 * (Len(xs) - 1)) % 4
        hi == IF rest = 0 THEN lo ELSE lo + 1
    IN {i \in 1..Len(xs) : 4 * xs[i] > 4 * sorted[lo] + rest * (sorted[hi] - sorted[lo])}

\* The pre_to_post_match pattern of lines 263-278 from the order changes, or none.
IncreasePattern(order_changes, significant_increases, pre_orders, df) ==
    IF significant_increases = {} THEN <<>>
    ELSE <<TemporalPattern(
             Uuid4("pre_to_post_match", "spike"), "pre_to_post_match", "spike",
             Min100(IF Sum(pre_orders) > 0
                    THEN Percent(SumAt(order_changes, significant_increases) * Len(df),
                                 Cardinality(significant_increases) * Sum(pre_orders))
                    ELSE PyInt(0)),
             CalculatePatternConfidence(Cardinality(significant_increases), Len(df)),
             PyText("Significant order increases from pre-match to post-match periods ({} matches)",
                    <<Cardinality(significant_increases)>>),
             CalculateSourceBreakdown(RowsAt(df, significant_increases)), PyInt(Len(df)))>>

\* The during_to_post_match pattern of lines 288-299 from the correlation, or none; NaN
\* compares false.
ReactionPattern(stat, df) ==
    IF ~IsNaN(stat.r) /\ ~IsNaN(stat.p)
       /\ Abs(Num(stat.r)) * 10 > 4 * Scale /\ Num(stat.p) * 100 < 5 * Scale
    THEN <<TemporalPattern(
             Uuid4("during_to_post_match", "trend"), "during_to_post_match", "trend",
             PyFloat(Abs(Num(stat.r)) * 100), PyFloat(Scale - Num(stat.p)),
             PyText("Strong correlation between during-match and post-match orders (r={})",
                    <<stat.r>>),
             CalculateSourceBreakdown(df), PyInt(Len(df)))>>
    ELSE <<>>

\* Lines 258-299 on the three count columns. stats.pearsonr raises ValueError for fewer
\* than two values: the except clause logs it and what was found before is returned.
CrossPeriodPatternsOf(pre_orders, during_orders, post_orders, order_changes, df) ==
    IncreasePattern(order_changes, AboveThirdQuartile(order_changes), pre_orders, df)
    \o (IF Len(df) < 2 THEN <<>> ELSE ReactionPattern(PearsonR(during_orders, post_orders), df))

\* InsightGenerator._analyze_cross_period_patterns
AnalyzeCrossPeriodPatterns(df, failed) ==
    IF failed THEN <<>>
    ELSE CrossPeriodPatternsOf(
             [i \in 1..Len(df) |-> df[i].pre_match_order_count.n],
             [i \in 1..Len(df) |-> df[i].during_match_order_count.n],
             [i \in 1..Len(df) |-> df[i].post_match_order_count.n],
             [i \in 1..Len(df) |-> df[i].post_match_order_count.n
                                     - df[i].pre_match_order_count.n],
             df)

\* The sum of post_match_order_count over the rows of a frame.
PostOrders(df) == Sum([i \in 1..Len(df) |-> df[i].post_match_order_count.n])

\* A variant that asks for two matches of the outcome only.
OutcomePatternOfTwoRows(outcome, outcome_matches, df) ==
    IF Len(outcome_matches) >= 2
       /\ PostOrders(outcome_matches) * Len(df) * 10 > PostOrders(df) * Len(outcome_matches) * 12
    THEN <<TemporalPattern(
             Uuid4("post_match", outcome), "post_match", "spike",
             Min100(Percent(PostOrders(outcome_matches) * Len(df)
                            - PostOrders(df) * Len(outcome_matches),
                            PostOrders(df) * Len(outcome_matches))),
             CalculatePatternConfidence(Len(outcome_matches), Len(df)),
             PyText("Higher post-match orders following {} wins ({} vs {} average)",
                    <<outcome, Percent(PostOrders(outcome_matches), 100 * Len(outcome_matches)),
                      Percent(PostOrders(df), 100 * Len(df))>>),
             CalculateSourceBreakdown(outcome_matches), PyInt(Len(outcome_matches)))>>
    ELSE <<>>

\* Lines 324-348 for one outcome: the pattern, or none.
OutcomePatternOf(outcome, outcome_matches, df) ==
    IF Len(outcome_matches) >= 3
       /\ PostOrders(outcome_matches) * Len(df) * 10 > PostOrders(df) * Len(outcome_matches) * 12
    THEN <<TemporalPattern(
             Uuid4("post_match", outcome), "post_match", "spike",
             Min100(Percent(PostOrders(outcome_matches) * Len(df)
                            - PostOrders(df) * Len(outcome_matches),
                            PostOrders(df) * Len(outcome_matches))),
             CalculatePatternConfidence(Len(outcome_matches), Len(df)),
             PyText("Higher post-match orders following {} wins ({} vs {} average)",
                    <<outcome, Percent(PostOrders(outcome_matches), 100 * Len(outcome_matches)),
                      Percent(PostOrders(df), 100 * Len(df))>>),
             CalculateSourceBreakdown(outcome_matches), PyInt(Len(outcome_matches)))>>
    ELSE <<>>

\* Lines 350-372: the high-scoring pattern, or none. A zero mean of the regular matches
\* makes the float division give inf, which min(., 100) turns into 100.
HighScoringPatternOf(high_scoring, regular_scoring, df) ==
    IF Len(high_scoring) >= 3 /\ Len(regular_scoring) >= 3
       /\ PostOrders(high_scoring) * Len(regular_scoring) * 100
            > PostOrders(regular_scoring) * Len(high_scoring) * 115
    THEN <<TemporalPattern(
             Uuid4("post_match", "high_scoring"), "post_match", "spike",
             IF PostOrders(regular_scoring) = 0 THEN PyInt(100)
             ELSE Min100(Percent(PostOrders(high_scoring) * Len(regular_scoring)
                                 - PostOrders(regular_scoring) * Len(high_scoring),
                                 PostOrders(regular_scoring) * Len(high_scoring))),
             CalculatePatternConfidence(Len(high_scoring), Len(df)),
             PyText("Higher orders after high-scoring matches ({} vs {})",
                    <<Percent(PostOrders(high_scoring), 100 * Len(high_scoring)),
                      Percent(PostOrders(regular_scoring), 100 * Len(regular_scoring))>>),
             CalculateSourceBreakdown(high_scoring), PyInt(Len(high_scoring)))>>
    ELSE <<>>

\* metrics_df[metrics_df['winner'] == outcome]
WithWinner(df, outcome) == RowsAt(df, {i \in 1..Len(df) : df[i].winner = outcome})

\* metrics_df[metrics_df['is_high_scoring'] == flag]
WithHighScoring(df, flag) == RowsAt(df, {i \in 1..Len(df) : df[i].is_high_scoring = PyBool(flag)})

\* InsightGenerator._analyze_outcome_impact_patterns
AnalyzeOutcomeImpactPatterns(df, failed) ==
    IF failed THEN <<>>
    ELSE OutcomePatternOf("home", WithWinner(df, "home"), df)
         \o OutcomePatternOf("away", WithWinner(df, "away"), df)
         \o OutcomePatternOf("draw", WithWinner(df, "draw"), df)
         \o HighScoringPatternOf(WithHighScoring(df, TRUE), WithHighScoring(df, FALSE), df)

\* The sub-computations of analyze_temporal_patterns, in call order: the two series of
\* each of the three periods, the cross-period analysis, the outcome analysis.
PatternSteps == 8

\* A variant whose helpers let an error through: the except clause of
\* analyze_temporal_patterns logs it and returns the empty list.
AnalyzeTemporalPatternsUnguarded(df, failing) ==
    IF df = <<>> \/ failing # 0 THEN Returned(<<>>)
    ELSE Returned(
        AnalyzePeriodPatterns(Column(df, "pre_match_order_count"), "pre_match", "order_count", df, FALSE)
        \o AnalyzePeriodPatterns(Column(df, "pre_match_total_volume"), "pre_match", "order_volume", df, FALSE)
        \o AnalyzePeriodPatterns(Column(df, "during_match_order_count"), "during_match", "order_count", df, FALSE)
        \o AnalyzePeriodPatterns(Column(df, "during_match_total_volume"), "during_match", "order_volume", df, FALSE)
        \o AnalyzePeriodPatterns(Column(df, "post_match_order_count"), "post_match", "order_count", df, FALSE)
        \o AnalyzePeriodPatterns(Column(df, "post_match_total_volume"), "post_match", "order_volume", df, FALSE)
        \o AnalyzeCrossPeriodPatterns(df, FALSE)
        \o AnalyzeOutcomeImpactPatterns(df, FALSE))

\* InsightGenerator.analyze_temporal_patterns(orders, matches, metrics_df); failing is
\* the sub-computation in which a call raises, 0 for none.
AnalyzeTemporalPatterns(df, failing) ==
    IF df = <<>> THEN Returned(<<>>)
    ELSE Returned(
        AnalyzePeriodPatterns(Column(df, "pre_match_order_count"), "pre_match", "order_count", df, failing = 1)
        \o AnalyzePeriodPatterns(Column(df, "pre_match_total_volume"), "pre_match", "order_volume", df, failing = 2)
        \o AnalyzePeriodPatterns(Column(df, "during_match_order_count"), "during_match", "order_count", df, failing = 3)
        \o AnalyzePeriodPatterns(Column(df, "during_match_total_volume"), "during_match", "order_volume", df, failing = 4)
        \o AnalyzePeriodPatterns(Column(df, "post_match_order_count"), "post_match", "order_count", df, failing = 5)
        \o AnalyzePeriodPatterns(Column(df, "post_match_total_volume"), "post_match", "order_volume", df, failing = 6)
        \o AnalyzeCrossPeriodPatterns(df, failing = 7)
        \o AnalyzeOutcomeImpactPatterns(df, failing = 8))

-----------------------------------------------------------------------------
(* Calls of analyze_temporal_patterns on frames of metrics rows *)

MaxFrame == 4

HomeWin == FootballMatch(PyStr("MATCH1"), PyDatetime(0), PyStr("Arsenal"), PyStr("Chelsea"), PyInt(2), PyInt(1), "win", "regular", "real")
GoallessDraw == FootballMatch(PyStr("MATCH2"), PyDatetime(0), PyStr("Liverpool"), PyStr("Everton"), PyInt(0), PyInt(0), "draw", "tournament", "mock")
AwayWin == FootballMatch(PyStr("MATCH3"), PyDatetime(0), PyStr("Leeds"), PyStr("Fulham"), PyInt(1), PyInt(3), "loss", "final", "real")

\* Orders around a match at tick 0, by their numbers before, during and after it:
\* (0, 1, 0), (1, 1, 0), (2, 0, 0) and (1, 2, 2).
OrdersAtKickOff == <<OrderAt(0)>>
OrdersBeforeAndAt == <<OrderAt(-3), OrderAt(0)>>
OrdersBeforeOnly == <<OrderAt(-4), OrderAt(-3)>>
OrdersThroughout == <<OrderAt(-3), OrderAt(0), OrderAt(1), OrderAt(3)>>

\* The row calculate_match_period_metrics computes, with the default windows.
MetricsRow(order_list, match) ==
    MatchMetrics(order_list, match, DefaultHours, DefaultHours, DefaultHours)

PatternRows ==
    {MetricsRow(OrdersThroughout, HomeWin), MetricsRow(OrdersAtKickOff, HomeWin),
     MetricsRow(OrdersBeforeAndAt, GoallessDraw), MetricsRow(OrdersBeforeOnly, GoallessDraw),
     MetricsRow(OrdersThroughout, GoallessDraw), MetricsRow(OrdersThroughout, AwayWin)}

InitPatterns ==
    /\ metrics_df \in ListsUpTo(PatternRows, MaxFrame)
    /\ fault = 0
    /\ patterns = NotCalled /\ anomalies = NotCalled /\ classified = NotCalled
    /\ stats_clips = TRUE /\ findings = NotCalled
    /\ attempt = NoCall /\ made = NoObject /\ raised = "none"
    /\ orders = <<>> /\ matches = <<>> /\ args = <<>> /\ rows = NotCalled
    /\ NoObjects /\ ToolsIdle /\ FilterIdle

\* generator.analyze_temporal_patterns(orders, matches, metrics_df)
AnalyzePatterns ==
    /\ patterns = NotCalled
    /\ patterns' = AnalyzeTemporalPatterns(metrics_df, fault)
    /\ UNCHANGED <<toolVars, fault, anomalies, classified, modelVars, metricsVars, corrVars, heapVars, filterVars>>

NextPatterns == AnalyzePatterns

SpecPatterns == InitPatterns /\ [][NextPatterns]_vars

-----------------------------------------------------------------------------
(* Claims about analyze_temporal_patterns, checked under SpecPatterns *)

PatternsReturned == patterns.status = "returned"

\* The rows of the frame hold non-negative order counts and volumes.
NonNegativeRows ==
    \A i \in 1..Len(metrics_df) :
        \A col \in {"pre_match_order_count", "during_match_order_count",
                     "post_match_order_count", "pre_match_total_volume",
                     "during_match_total_volume", "post_match_total_volume"} :
            Num(metrics_df[i][col]) >= 0

\* C15 as stated: every pattern analyze_temporal_patterns returns for rows with
\* non-negative counts and volumes has a magnitude in [0, 100], a confidence in [0, 1],
\* a pattern_type among spike, dip, stable, trend and a time_period among the three
\* periods and the two cross-period windows; the pre_to_post_match spike included.
C15_PatternFieldsWithinBounds ==
    (PatternsReturned /\ NonNegativeRows) =>
        \A i \in 1..Len(patterns.value) :
            /\ Between(0, patterns.value[i].magnitude, 100 * Scale)
            /\ Between(0, patterns.value[i].confidence, Scale)
            /\ patterns.value[i].pattern_type \in {"spike", "dip", "stable", "trend"}
            /\ patterns.value[i].time_period \in
                 {"pre_match", "during_match", "post_match", "pre_to_post_match",
                  "during_to_post_match"}

\* C16 as stated: a frame of fewer than 3 rows yields no pattern of any kind, and no
\* error.
C16_NoPatternBelowThreeRows ==
    /\ patterns.status \in {"not_called", "returned"}
    /\ (PatternsReturned /\ Len(metrics_df) < 3) => patterns.value = <<>>

\* The rows of the frame with a winner, and the sum of post_match_order_count over a
\* set of rows.
RowsWon(outcome) == {i \in 1..Len(metrics_df) : metrics_df[i].winner = outcome}

RECURSIVE PostCount(_)
PostCount(S) ==
    IF S = {} THEN 0
    ELSE LET i == CHOOSE j \in S : TRUE
         IN metrics_df[i].post_match_order_count.n + PostCount(S \ {i})

\* The outcome-impact patterns returned for an outcome: post_match spikes whose
\* description names it.
ImpactPatterns(outcome) ==
    {i \in 1..Len(patterns.value) :
        /\ patterns.value[i].pattern_type = "spike"
        /\ patterns.value[i].time_period = "post_match"
        /\ patterns.value[i].description.s
            = "Higher post-match orders following {} wins ({} vs {} average)"
        /\ patterns.value[i].description.parts[1] = outcome}

\* C17: there is an outcome-impact pattern for an outcome exactly when at least 3 rows
\* have that winner and their mean post_match_order_count is more than 20% above the
\* mean of all rows; its magnitude is
\* min((subset mean - overall mean) / overall mean * 100, 100) and its sample_size the
\* number of rows with that winner.
C17_OutcomeImpactPattern ==
    PatternsReturned =>
        \A outcome \in {"home", "away", "draw"} :
            LET won == RowsWon(outcome)
                k == Cardinality(won)
                n == Len(metrics_df)
                sub == PostCount(won)
                all == PostCount(1..n)
            IN IF k >= 3 /\ sub * n * 5 > all * k * 6
               THEN /\ Cardinality(ImpactPatterns(outcome)) = 1
                    /\ \A i \in ImpactPatterns(outcome) :
                        LET raw == ((sub * n - all * k) * 100 * Scale) \div (all * k)
                        IN /\ Num(patterns.value[i].magnitude)
                                = IF raw < 100 * Scale THEN raw ELSE 100 * Scale
                           /\ patterns.value[i].sample_size = PyInt(k)
               ELSE ImpactPatterns(outcome) = {}

\* C17 witness: three of four matches were home wins with more post-match orders than
\* the fourth, and the home pattern is there; no other outcome has one.
C17_Witness ==
    /\ PatternsReturned /\ Len(metrics_df) = 4
    /\ Cardinality(RowsWon("home")) = 3
    /\ ImpactPatterns("home") # {}
    /\ ImpactPatterns("draw") = {} /\ ImpactPatterns("away") = {}
    /\ \E i \in ImpactPatterns("home") :
        /\ Num(patterns.value[i].magnitude) > 0
        /\ patterns.value[i].sample_size = PyInt(3)

-----------------------------------------------------------------------------
(* detect_anomalies_with_source_distinction: insight_generator.py *)

\* The dataclass fields of AnomalyDetection, in declaration order; nothing is validated.
AnomalyDetection(anomaly_id, timestamp, anomaly_type, severity, description, data_source, confidence_score, context) ==
    [cls |-> "AnomalyDetection", anomaly_id |-> anomaly_id, timestamp |-> timestamp,
     anomaly_type |-> anomaly_type, severity |-> severity, description |-> description,
     data_source |-> data_source, confidence_score |-> confidence_score,
     context |-> context]

\* pd.to_datetime of a column of datetimes: the same instants as pandas Timestamps
ToDatetime(x) == [ty |-> "Timestamp", n |-> x.n, s |-> ""]

\* Four times series.quantile(k / 4) of a sorted series, interpolated linearly between
\* the values around position (k / 4) * (n - 1).
QuantileTimes4(sorted, k) ==
    LET lo == (k * (Len(sorted) - 1)) \div 4 + 1
        rest == (k * (Len(sorted) - 1)) % 4
        hi == IF rest = 0 THEN lo ELSE lo + 1
    IN 4 * sorted[lo] + rest * (sorted[hi] - sorted[lo])

\* Four times lower_bound and upper_bound of lines 918-924 from four times q1 and q3.
LowerBoundTimes4(q1, q3) == q1 - 3 * (q3 - q1)
UpperBoundTimes4(q1, q3) == q3 + 3 * (q3 - q1)

\* f"${x:.2f}" of a quarter of x4 hundredths
Dollars(x4) == [ty |-> "str", n |-> (x4 + 2) \div 4, s |-> "${:.2f}"]

\* The anomaly of lines 928-945 for one outlier row of order_df.
OrderAnomaly(outlier, lower4, upper4) ==
    LET above == 4 * Num(outlier.order_total) > upper4
    IN AnomalyDetection(
           Uuid4("order", outlier.order_id), ToDatetime(outlier.timestamp),
           IF above THEN "order_spike" ELSE "order_dip",
           IF above THEN "high" ELSE "medium",
           PyText("Unusual order value: {} (normal range: {}-{})",
                  <<Dollars(4 * Num(outlier.order_total)), Dollars(lower4), Dollars(upper4)>>),
           outlier.data_source, PyFloat((8 * Scale) \div 10),
           [order_id |-> outlier.order_id, location |-> outlier.location,
            expected_range |-> <<Dollars(lower4), Dollars(upper4)>>])

\* Lines 926-945: the rows of order_df outside the bounds, each turned into an anomaly,
\* in row order.
OutlierAnomalies(order_list, lower4, upper4) ==
    LET Outside(o) == 4 * Num(o.order_total) < lower4 \/ 4 * Num(o.order_total) > upper4
        outliers == SelectSeq(order_list, Outside)
    IN [j \in 1..Len(outliers) |-> OrderAnomaly(outliers[j], lower4, upper4)]

\* Lines 913-945 on the sorted order totals.
OrderVolumeAnomaliesOf(order_list, sorted) ==
    OutlierAnomalies(order_list,
                     LowerBoundTimes4(QuantileTimes4(sorted, 1), QuantileTimes4(sorted, 3)),
                     UpperBoundTimes4(QuantileTimes4(sorted, 1), QuantileTimes4(sorted, 3)))

\* A variant with the conventional fence of 1.5 * IQR, here as 3 * IQR on twice the values.
DetectOrderVolumeAnomaliesNarrowFence(order_list, df, failed) ==
    IF failed \/ order_list = <<>> THEN <<>>
    ELSE LET sorted == SortSeq([i \in 1..Len(order_list) |-> Num(order_list[i].order_total)],
                               LAMBDA a, b : a < b)
             q1 == QuantileTimes4(sorted, 1)
             q3 == QuantileTimes4(sorted, 3)
         IN OutlierAnomalies(order_list, (2 * q1 - 3 * (q3 - q1)) \div 2,
                                         (2 * q3 + 3 * (q3 - q1) + 1) \div 2)

\* InsightGenerator._detect_order_volume_anomalies(orders, metrics_df); failed says that
\* a call inside its try block raises, which the except clause logs.
DetectOrderVolumeAnomalies(order_list, df, failed) ==
    IF failed \/ order_list = <<>> THEN <<>>
    ELSE OrderVolumeAnomaliesOf(
             order_list,
             SortSeq([i \in 1..Len(order_list) |-> Num(order_list[i].order_total)],
                     LAMBDA a, b : a < b))

\* datetime.utcnow(): the wall clock is not part of the model
UtcNow == [ty |-> "datetime", n |-> 0, s |-> "utcnow"]

\* The anomaly of lines 972-986 for one period, or none: more than 10% of the rows have
\* no order in the period.
ZeroOrderAnomaly(df, period, zero_orders) ==
    IF Len(zero_orders) * 10 > Len(df)
    THEN <<AnomalyDetection(
             Uuid4("temporal", period), UtcNow, "unusual_pattern", "medium",
             PyText("Unusually high number of zero-order {} periods ({} out of {})",
                    <<period, Len(zero_orders), Len(df)>>),
             "mixed", PyFloat((7 * Scale) \div 10),
             [period |-> period, zero_count |-> PyInt(Len(zero_orders)),
              total_periods |-> PyInt(Len(df)),
              percentage |-> Percent(Len(zero_orders), Len(df))])>>
    ELSE <<>>

\* metrics_df[metrics_df[order_col] == 0]; NaN compares unequal
ZeroOrders(df, order_col) ==
    RowsAt(df, {i \in 1..Len(df) : ~IsNaN(df[i][order_col]) /\ Num(df[i][order_col]) = 0})

\* InsightGenerator._detect_temporal_anomalies(metrics_df)
DetectTemporalAnomalies(df, failed) ==
    IF failed \/ df = <<>> THEN <<>>
    ELSE ZeroOrderAnomaly(df, "pre_match", ZeroOrders(df, "pre_match_order_count"))
         \o ZeroOrderAnomaly(df, "during_match", ZeroOrders(df, "during_match_order_count"))
         \o ZeroOrderAnomaly(df, "post_match", ZeroOrders(df, "post_match_order_count"))

\* The anomaly of lines 1004-1018 from the pair (correlation, p_value), or none; NaN
\* compares false.
NegativeCorrelationAnomaly(stat, df) ==
    IF ~IsNaN(stat.r) /\ ~IsNaN(stat.p)
       /\ Num(stat.r) * 10 < -3 * Scale /\ Num(stat.p) * 100 < 5 * Scale
    THEN <<AnomalyDetection(
             Uuid4("correlation", "total_goals"), UtcNow, "unusual_pattern", "high",
             PyText("Unusual negative correlation between match excitement and post-match orders (r={})",
                    <<stat.r>>),
             "mixed", PyFloat(Scale - Num(stat.p)),
             [correlation_coefficient |-> stat.r, p_value |-> stat.p,
              sample_size |-> PyInt(Len(df))])>>
    ELSE <<>>

\* InsightGenerator._detect_correlation_anomalies(metrics_df)
DetectCorrelationAnomalies(df, failed) ==
    IF failed \/ Len(df) < 5 THEN <<>>
    ELSE NegativeCorrelationAnomaly(
             PearsonR([i \in 1..Len(df) |-> Num(df[i].total_goals)],
                      [i \in 1..Len(df) |-> Num(df[i].post_match_order_count)]), df)

\* The sum of the order totals of a list
TotalOf(order_list) == Sum([i \in 1..Len(order_list) |-> Num(order_list[i].order_total)])

\* The anomaly of lines 1034-1053, or none: abs(real_avg - mock_avg) / max(real_avg,
\* mock_avg) > 0.5 on the cross-multiplied averages; 0 / 0 of two numpy floats is NaN,
\* which compares false.
SourceAnomaly(real_avg, mock_avg, real_orders, mock_orders) ==
    LET larger == IF real_avg > mock_avg THEN real_avg ELSE mock_avg
    IN IF larger > 0 /\ 2 * Abs(real_avg - mock_avg) > larger
       THEN <<AnomalyDetection(
                Uuid4("source", "averages"), UtcNow, "unusual_pattern", "medium",
                PyText("Significant difference between real and mock order averages ({} vs {})",
                       <<Percent(TotalOf(real_orders), 100 * Len(real_orders)),
                         Percent(TotalOf(mock_orders), 100 * Len(mock_orders))>>),
                "mixed", PyFloat((8 * Scale) \div 10),
                [real_average |-> Percent(TotalOf(real_orders), 100 * Len(real_orders)),
                 mock_average |-> Percent(TotalOf(mock_orders), 100 * Len(mock_orders)),
                 real_count |-> PyInt(Len(real_orders)),
                 mock_count |-> PyInt(Len(mock_orders))])>>
       ELSE <<>>

\* [order for order in orders if order.data_source == source]
FromSource(order_list, source) ==
    LET Is(o) == o.data_source = source IN SelectSeq(order_list, Is)

\* Lines 1027-1053 on the two sub-lists.
SourceInconsistenciesOf(real_orders, mock_orders) ==
    IF real_orders = <<>> \/ mock_orders = <<>> THEN <<>>
    ELSE SourceAnomaly(TotalOf(real_orders) * Len(mock_orders),
                       TotalOf(mock_orders) * Len(real_orders), real_orders, mock_orders)

\* InsightGenerator._detect_source_inconsistencies(orders, matches)
DetectSourceInconsistencies(order_list, match_list, failed) ==
    IF failed THEN <<>>
    ELSE SourceInconsistenciesOf(FromSource(order_list, "real"), FromSource(order_list, "mock"))

\* The helpers of detect_anomalies_with_source_distinction, in call order.
AnomalySteps == 4

\* A variant whose helpers let an error through: the except clause of
\* detect_anomalies_with_source_distinction raises InsightGenerationError.
DetectAnomaliesWithSourceDistinctionUnguarded(order_list, match_list, df, failing) ==
    IF failing # 0 THEN Raised("InsightGenerationError")
    ELSE Returned(DetectOrderVolumeAnomalies(order_list, df, FALSE)
                  \o DetectTemporalAnomalies(df, FALSE)
                  \o DetectCorrelationAnomalies(df, FALSE)
                  \o DetectSourceInconsistencies(order_list, match_list, FALSE))

\* InsightGenerator.detect_anomalies_with_source_distinction(orders, matches,
\* metrics_df); failing is the helper in which a call raises, 0 for none.
DetectAnomaliesWithSourceDistinction(order_list, match_list, df, failing) ==
    Returned(DetectOrderVolumeAnomalies(order_list, df, failing = 1)
             \o DetectTemporalAnomalies(df, failing = 2)
             \o DetectCorrelationAnomalies(df, failing = 3)
             \o DetectSourceInconsistencies(order_list, match_list, failing = 4))

-----------------------------------------------------------------------------
(* Calls of detect_anomalies_with_source_distinction on lists of orders *)

MaxBasket == 5

\* A valid order of a total in dollars and a provenance, told apart by its id.
BasketOrder(total, source) ==
    DominosOrder([ty |-> "str", n |-> total, s |-> source], PyDatetime(total % 3),
                 PyStr(IF source = "real" THEN "Downtown" ELSE "Uptown"),
                 PyFloat(total * Scale), <<"Margherita">>, PyInt(1), source)

\* Orders of 10, 20 and 100 dollars; the cheapest and the dearest come from both sources.
BasketCatalogue ==
    {BasketOrder(10, "real"), BasketOrder(10, "mock"), BasketOrder(20, "mock"),
     BasketOrder(100, "real"), BasketOrder(100, "mock")}

\* Five matches whose post-match order counts fall as the goals rise, and two matches
\* with orders in every period.
QuietAfterGoals ==
    <<MetricsRow(OrdersAtKickOff, HomeWin), MetricsRow(OrdersAtKickOff, HomeWin),
      MetricsRow(OrdersThroughout, GoallessDraw), MetricsRow(OrdersThroughout, GoallessDraw),
      MetricsRow(OrdersAtKickOff, AwayWin)>>
BusyThroughout ==
    <<MetricsRow(OrdersThroughout, HomeWin), MetricsRow(OrdersThroughout, GoallessDraw)>>

AnomalyFrames == {<<>>, BusyThroughout, QuietAfterGoals}

InitAnomalies ==
    /\ orders \in ListsUpTo(BasketCatalogue, MaxBasket)
    /\ metrics_df \in AnomalyFrames
    /\ matches = <<>>
    /\ fault = 0
    /\ patterns = NotCalled /\ anomalies = NotCalled /\ classified = NotCalled
    /\ stats_clips = TRUE /\ findings = NotCalled
    /\ attempt = NoCall /\ made = NoObject /\ raised = "none"
    /\ args = <<>> /\ rows = NotCalled
    /\ NoObjects /\ ToolsIdle /\ FilterIdle

\* generator.detect_anomalies_with_source_distinction(orders, matches, metrics_df)
DetectAnomalies ==
    /\ anomalies = NotCalled
    /\ anomalies' = DetectAnomaliesWithSourceDistinction(orders, matches, metrics_df, fault)
    /\ UNCHANGED <<toolVars, fault, patterns, classified, modelVars, metricsVars, corrVars, heapVars, filterVars>>

NextAnomalies == DetectAnomalies

SpecAnomalies == InitAnomalies /\ [][NextAnomalies]_vars

-----------------------------------------------------------------------------
(* Claims about the order-value outlier detector, checked under SpecAnomalies *)

AnomaliesReturned == anomalies.status = "returned"

\* The order totals, in hundredths, in list order.
OrderTotals == [i \in 1..Len(orders) |-> Num(orders[i].order_total)]

\* Four times the first (k = 1) or third (k = 3) quartile of the order totals: the
\* interpolated value at position (k / 4) * (n - 1) of the totals in ascending order.
QuartileTimes4(k) == QuantileTimes4(SortSeq(OrderTotals, LAMBDA a, b : a < b), k)

\* The order at position i lies above Q3 + 3 * IQR, or below Q1 - 3 * IQR.
AboveFence(i) == 4 * OrderTotals[i] > 4 * QuartileTimes4(3) - 3 * QuartileTimes4(1)
BelowFence(i) == 4 * OrderTotals[i] < 4 * QuartileTimes4(1) - 3 * QuartileTimes4(3)

\* The positions of the orders outside the fences, in list order.
FlaggedOrders ==
    LET Outside(i) == AboveFence(i) \/ BelowFence(i)
    IN SelectSeq([i \in 1..Len(orders) |-> i], Outside)

\* The anomalies of the order-value detector among those returned, in order.
OrderValueAnomalies ==
    LET OfOrder(a) == a.anomaly_type \in {"order_spike", "order_dip"}
    IN SelectSeq(anomalies.value, OfOrder)

\* C18: the order-value outlier detector emits exactly one anomaly for each order whose
\* total is below Q1 - 3*IQR or above Q3 + 3*IQR of all order totals, in order, and none
\* for any other order; an order above the upper fence is an order_spike of severity
\* high, one below the lower fence an order_dip of severity medium, each with that
\* order's id and data source; of the totals 10, 10, 10, 10, 100 only the 100 is flagged.
C18_OneAnomalyPerOutlier ==
    AnomaliesReturned =>
        /\ Len(OrderValueAnomalies) = Len(FlaggedOrders)
        /\ \A j \in 1..Len(FlaggedOrders) :
            LET a == OrderValueAnomalies[j]
                i == FlaggedOrders[j]
            IN /\ a.context.order_id = orders[i].order_id
               /\ a.data_source = orders[i].data_source
               /\ AboveFence(i) => a.anomaly_type = "order_spike" /\ a.severity = "high"
               /\ BelowFence(i) => a.anomaly_type = "order_dip" /\ a.severity = "medium"
        /\ OrderTotals = <<10 * Scale, 10 * Scale, 10 * Scale, 10 * Scale, 100 * Scale>>
            => /\ FlaggedOrders = <<5>>
               /\ Len(OrderValueAnomalies) = 1
               /\ OrderValueAnomalies[1].anomaly_type = "order_spike"
               /\ OrderValueAnomalies[1].severity = "high"

\* C18 witness: of the totals 10, 10, 10, 10, 100 the mock order of 100 was flagged as
\* a spike of mock data.
C18_Witness ==
    /\ AnomaliesReturned
    /\ OrderTotals = <<10 * Scale, 10 * Scale, 10 * Scale, 10 * Scale, 100 * Scale>>
    /\ orders[5].data_source = "mock" /\ orders[1].data_source = "real"
    /\ Len(OrderValueAnomalies) = 1
    /\ OrderValueAnomalies[1].anomaly_type = "order_spike"
    /\ OrderValueAnomalies[1].data_source = "mock"

-----------------------------------------------------------------------------
(* The three batch operations on one set of inputs, with a failing helper *)

\* Six matches, none drawn and none of a tournament; one has orders in every period,
\* the others at kick-off only.
OneBusyMatch ==
    <<MetricsRow(OrdersAtKickOff, HomeWin), MetricsRow(OrdersAtKickOff, HomeWin),
      MetricsRow(OrdersAtKickOff, HomeWin), MetricsRow(OrdersAtKickOff, AwayWin),
      MetricsRow(OrdersAtKickOff, AwayWin), MetricsRow(OrdersThroughout, HomeWin)>>

\* Three matches with their orders.
ThreeMatches ==
    <<MetricsRow(OrdersThroughout, HomeWin), MetricsRow(OrdersBeforeAndAt, GoallessDraw),
      MetricsRow(OrdersAtKickOff, AwayWin)>>

BatchFrames == {ThreeMatches, QuietAfterGoals, OneBusyMatch}

\* No orders, or four real orders of 10 dollars and a mock order of 100.
BatchOrders ==
    {<<>>, <<BasketOrder(10, "real"), BasketOrder(10, "real"), BasketOrder(10, "real"),
             BasketOrder(10, "real"), BasketOrder(100, "mock")>>}

InitBatch ==
    /\ metrics_df \in BatchFrames
    /\ orders \in BatchOrders
    /\ fault \in 0..PatternSteps
    /\ stats_clips \in BOOLEAN
    /\ matches = <<>>
    /\ patterns = NotCalled /\ anomalies = NotCalled /\ classified = NotCalled
    /\ findings = NotCalled
    /\ attempt = NoCall /\ made = NoObject /\ raised = "none"
    /\ args = <<>> /\ rows = NotCalled
    /\ NoObjects /\ ToolsIdle /\ FilterIdle

\* The three operations are called once each, in any order.
NextBatch == CalculateCorrelations \/ AnalyzePatterns \/ DetectAnomalies

SpecBatch == InitBatch /\ [][NextBatch]_vars

-----------------------------------------------------------------------------
(* Claims about failing sub-computations, checked under SpecBatch *)

\* What the k-th helper call of analyze_temporal_patterns yields when nothing fails in it.
StepPatterns(k) ==
    CASE k = 1 -> AnalyzePeriodPatterns(Column(metrics_df, "pre_match_order_count"), "pre_match", "order_count", metrics_df, FALSE)
      [] k = 2 -> AnalyzePeriodPatterns(Column(metrics_df, "pre_match_total_volume"), "pre_match", "order_volume", metrics_df, FALSE)
      [] k = 3 -> AnalyzePeriodPatterns(Column(metrics_df, "during_match_order_count"), "during_match", "order_count", metrics_df, FALSE)
      [] k = 4 -> AnalyzePeriodPatterns(Column(metrics_df, "during_match_total_volume"), "during_match", "order_volume", metrics_df, FALSE)
      [] k = 5 -> AnalyzePeriodPatterns(Column(metrics_df, "post_match_order_count"), "post_match", "order_count", metrics_df, FALSE)
      [] k = 6 -> AnalyzePeriodPatterns(Column(metrics_df, "post_match_total_volume"), "post_match", "order_volume", metrics_df, FALSE)
      [] k = 7 -> AnalyzeCrossPeriodPatterns(metrics_df, FALSE)
      [] k = 8 -> AnalyzeOutcomeImpactPatterns(metrics_df, FALSE)

\* What the k-th helper call of detect_anomalies_with_source_distinction yields when
\* nothing fails in it.
StepAnomalies(k) ==
    CASE k = 1 -> DetectOrderVolumeAnomalies(orders, metrics_df, FALSE)
      [] k = 2 -> DetectTemporalAnomalies(metrics_df, FALSE)
      [] k = 3 -> DetectCorrelationAnomalies(metrics_df, FALSE)
      [] k = 4 -> DetectSourceInconsistencies(orders, matches, FALSE)

RECURSIVE OtherSteps(_, _, _)
\* The results of the steps k..n other than the failing one, in call order.
OtherSteps(Step(_), k, n) ==
    IF k > n THEN <<>>
    ELSE (IF k = fault THEN <<>> ELSE Step(k)) \o OtherSteps(Step, k + 1, n)

\* The computation of the k-th outcome-versus-volume pair fails: it has enough paired
\* rows and the constructor rejects what the statistics call yields.
PairFails(k) == PairSize(k) >= 3 /\ ~InBounds(PairStat(k))

-----------------------------------------------------------------------------
(* classify_football_events: correlation_analyzer.py *)

\* CorrelationAnalyzer._classify_excitement_level
ClassifyExcitementLevel(match_row) ==
    IF match_row.total_goals.n >= 5 THEN "very_high"
    ELSE IF match_row.total_goals.n >= 3 /\ match_row.goal_differential.n <= 1 THEN "high"
    ELSE IF match_row.total_goals.n >= 2 THEN "medium"
    ELSE "low"

\* CorrelationAnalyzer._classify_outcome_type
ClassifyOutcomeType(match_row) ==
    IF match_row.home_score.n = match_row.away_score.n THEN "draw"
    ELSE IF Abs(match_row.home_score.n - match_row.away_score.n) >= 3 THEN "blowout"
    ELSE IF Abs(match_row.home_score.n - match_row.away_score.n) = 1 THEN "close_win"
    ELSE "comfortable_win"

\* CorrelationAnalyzer._classify_scoring_pattern
ClassifyScoringPattern(match_row) ==
    IF match_row.total_goals.n = 0 THEN "scoreless"
    ELSE IF match_row.total_goals.n = 1 THEN "low_scoring"
    ELSE IF match_row.total_goals.n <= 3 THEN "moderate_scoring"
    ELSE IF match_row.total_goals.n <= 5 THEN "high_scoring"
    ELSE "very_high_scoring"

\* CorrelationAnalyzer._classify_importance_level
ClassifyImportanceLevel(match_row) ==
    IF match_row.match_significance = "final" THEN "critical"
    ELSE IF match_row.match_significance = "tournament" THEN "high"
    ELSE "regular"

\* min(a, b)
Min(a, b) == IF a < b THEN a ELSE b

\* A variant whose base score from the goals has no limit of 30 points.
CalculateEventImpactScoreNoGoalLimit(match_row) ==
    LET total_goals == match_row.total_goals.n
        goal_diff == match_row.goal_differential.n
        score == total_goals * 5
                 + (IF goal_diff = 0 THEN 20 ELSE IF goal_diff = 1 THEN 15
                    ELSE IF goal_diff = 2 THEN 10 ELSE 0)
                 + (IF match_row.match_significance = "final" THEN 30
                    ELSE IF match_row.match_significance = "tournament" THEN 20 ELSE 10)
                 + (IF total_goals >= 5 THEN 20 ELSE IF total_goals >= 3 THEN 10 ELSE 0)
    IN PyInt(Min(score, 100))

\* A variant that gives a regular match no points for its significance.
CalculateEventImpactScoreNoRegularPoints(match_row) ==
    LET total_goals == match_row.total_goals.n
        goal_diff == match_row.goal_differential.n
        score == Min(total_goals * 5, 30)
                 + (IF goal_diff = 0 THEN 20 ELSE IF goal_diff = 1 THEN 15
                    ELSE IF goal_diff = 2 THEN 10 ELSE 0)
                 + (IF match_row.match_significance = "final" THEN 30
                    ELSE IF match_row.match_significance = "tournament" THEN 20 ELSE 0)
                 + (IF total_goals >= 5 THEN 20 ELSE IF total_goals >= 3 THEN 10 ELSE 0)
    IN PyInt(Min(score, 100))

\* CorrelationAnalyzer._calculate_event_impact_score
CalculateEventImpactScore(match_row) ==
    LET total_goals == match_row.total_goals.n
        goal_diff == match_row.goal_differential.n
        score == Min(total_goals * 5, 30)
                 + (IF goal_diff = 0 THEN 20 ELSE IF goal_diff = 1 THEN 15
                    ELSE IF goal_diff = 2 THEN 10 ELSE 0)
                 + (IF match_row.match_significance = "final" THEN 30
                    ELSE IF match_row.match_significance = "tournament" THEN 20 ELSE 10)
                 + (IF total_goals >= 5 THEN 20 ELSE IF total_goals >= 3 THEN 10 ELSE 0)
    IN PyInt(Min(score, 100))

\* Lines 613-617: the row of asdict(match) with goal_differential and total_goals.
WithGoals(match) ==
    [match_id |-> match.match_id, timestamp |-> match.timestamp,
     home_team |-> match.home_team, away_team |-> match.away_team,
     home_score |-> match.home_score, away_score |-> match.away_score,
     event_type |-> match.event_type, match_significance |-> match.match_significance,
     data_source |-> match.data_source,
     goal_differential |-> PyInt(Abs(match.home_score.n - match.away_score.n)),
     total_goals |-> PyInt(match.home_score.n + match.away_score.n)]

\* Lines 619-632: the row with the five classifications applied to it.
ClassifiedRow(match_row) ==
    [match_id |-> match_row.match_id, timestamp |-> match_row.timestamp,
     home_team |-> match_row.home_team, away_team |-> match_row.away_team,
     home_score |-> match_row.home_score, away_score |-> match_row.away_score,
     event_type |-> match_row.event_type,
     match_significance |-> match_row.match_significance,
     data_source |-> match_row.data_source,
     goal_differential |-> match_row.goal_differential,
     total_goals |-> match_row.total_goals,
     excitement_level |-> ClassifyExcitementLevel(match_row),
     outcome_type |-> ClassifyOutcomeType(match_row),
     scoring_pattern |-> ClassifyScoringPattern(match_row),
     importance_level |-> ClassifyImportanceLevel(match_row),
     event_impact_score |-> CalculateEventImpactScore(match_row)]

\* CorrelationAnalyzer.classify_football_events(matches): the rows of the frame
ClassifyFootballEvents(match_list) ==
    Returned([i \in 1..Len(match_list) |-> ClassifiedRow(WithGoals(match_list[i]))])

-----------------------------------------------------------------------------
(* Calls of classify_football_events on lists of valid matches *)

MaxEvents == 2

\* The goals a team scores in the matches of the catalogue.
GoalCounts == 0..4

\* A valid match of a score and a significance.
EventMatch(home_score, away_score, significance) ==
    FootballMatch(PyStr("MATCH"), PyDatetime(0), PyStr("Arsenal"), PyStr("Chelsea"),
                  PyInt(home_score), PyInt(away_score), "goal", significance,
                  IF significance = "regular" THEN "mock" ELSE "real")

EventCatalogue ==
    {m \in {EventMatch(h, a, sig) : h \in GoalCounts, a \in GoalCounts,
                                    sig \in {"regular", "tournament", "final"}} :
        FootballMatchValidate(m) = "ok"}

InitEvents ==
    /\ matches \in ListsUpTo(EventCatalogue, MaxEvents)
    /\ classified = NotCalled
    /\ fault = 0 /\ patterns = NotCalled /\ anomalies = NotCalled
    /\ metrics_df = <<>> /\ stats_clips = TRUE /\ findings = NotCalled
    /\ attempt = NoCall /\ made = NoObject /\ raised = "none"
    /\ orders = <<>> /\ args = <<>> /\ rows = NotCalled
    /\ NoObjects /\ ToolsIdle /\ FilterIdle

\* analyzer.classify_football_events(matches)
ClassifyEvents ==
    /\ classified = NotCalled
    /\ classified' = ClassifyFootballEvents(matches)
    /\ UNCHANGED <<toolVars, fault, patterns, anomalies, modelVars, metricsVars, corrVars, heapVars, filterVars>>

NextEvents == ClassifyEvents

SpecEvents == InitEvents /\ [][NextEvents]_vars

-----------------------------------------------------------------------------
(* Claims about classify_football_events, checked under SpecEvents *)

EventsClassified == classified.status = "returned"

\* The four parts of the score of the match at position i, from its scores and its
\* significance.
TotalGoals(i) == matches[i].home_score.n + matches[i].away_score.n
GoalDifference(i) ==
    IF matches[i].home_score.n > matches[i].away_score.n
    THEN matches[i].home_score.n - matches[i].away_score.n
    ELSE matches[i].away_score.n - matches[i].home_score.n
GoalPoints(i) == IF TotalGoals(i) * 5 < 30 THEN TotalGoals(i) * 5 ELSE 30
ClosenessPoints(i) ==
    CASE GoalDifference(i) = 0 -> 20
      [] GoalDifference(i) = 1 -> 15
      [] GoalDifference(i) = 2 -> 10
      [] OTHER -> 0
SignificancePoints(i) ==
    CASE matches[i].match_significance = "final" -> 30
      [] matches[i].match_significance = "tournament" -> 20
      [] matches[i].match_significance = "regular" -> 10
HighScoringPoints(i) ==
    CASE TotalGoals(i) >= 5 -> 20
      [] TotalGoals(i) >= 3 -> 10
      [] OTHER -> 0
PointsOf(i) == GoalPoints(i) + ClosenessPoints(i) + SignificancePoints(i) + HighScoringPoints(i)

\* C20: the event_impact_score of every match is min(total_goals * 5, 30), plus 20, 15
\* or 10 for a goal difference of 0, 1 or 2, plus 30, 20 or 10 for a final, a tournament
\* or a regular match, plus 20 for five goals or more and 10 for three or four, kept
\* within 0..100; a drawn final with six goals or more scores exactly 100.
C20_EventImpactScore ==
    EventsClassified =>
        /\ Len(classified.value) = Len(matches)
        /\ \A i \in 1..Len(matches) :
            /\ classified.value[i].event_impact_score
                 = PyInt(IF PointsOf(i) > 100 THEN 100
                         ELSE IF PointsOf(i) < 0 THEN 0 ELSE PointsOf(i))
            /\ (matches[i].match_significance = "final" /\ GoalDifference(i) = 0
                /\ TotalGoals(i) >= 6)
                 => classified.value[i].event_impact_score = PyInt(100)

\* C20 witness: a final drawn 3-3 was given 100, next to a goalless regular match
\* given 30.
C20_Witness ==
    /\ EventsClassified /\ Len(matches) = 2
    /\ matches[1].match_significance = "final"
    /\ matches[1].home_score = PyInt(3) /\ matches[1].away_score = PyInt(3)
    /\ classified.value[1].event_impact_score = PyInt(100)
    /\ matches[2].match_significance = "regular" /\ TotalGoals(2) = 0
    /\ classified.value[2].event_impact_score = PyInt(30)

\* C30: for every valid match the sum of the four components of the impact score,
\* before the final min, lies between 30 and 100, so the min changes nothing and
\* event_impact_score lies in 30..100.
C30_ScoreBetween30And100 ==
    EventsClassified =>
        \A i \in 1..Len(matches) :
            /\ PointsOf(i) \in 30..100
            /\ classified.value[i].event_impact_score.ty = "int"
            /\ classified.value[i].event_impact_score.n = PointsOf(i)
            /\ classified.value[i].event_impact_score.n \in 30..100

\* C30 witness: a regular match lost 0-1 was given the least score, 30, and a final
\* drawn 4-4 the greatest, 100, where the goals alone would give 40 points.
C30_Witness ==
    /\ EventsClassified /\ Len(matches) = 2
    /\ matches[1].match_significance = "regular"
    /\ matches[1].home_score = PyInt(0) /\ matches[1].away_score = PyInt(1)
    /\ classified.value[1].event_impact_score = PyInt(30)
    /\ matches[2].match_significance = "final"
    /\ matches[2].home_score = PyInt(4) /\ matches[2].away_score = PyInt(4)
    /\ classified.value[2].event_impact_score = PyInt(100)

-----------------------------------------------------------------------------
(* _calculate_pattern_confidence as a function of its two counts: insight_generator.py *)

\* A float as the exact quotient of two whole numbers, den > 0.
Ratio(num, den) == [ty |-> "float", num |-> num, den |-> den]

\* A variant without the sample factor: the proportion alone, capped at 1.
PatternConfidenceProportionOnly(pattern_instances, total_instances) ==
    IF total_instances = 0 THEN Ratio(0, 1)
    ELSE IF pattern_instances > total_instances THEN Ratio(1, 1)
    ELSE Ratio(pattern_instances, total_instances)

\* InsightGenerator._calculate_pattern_confidence, in exact arithmetic:
\* proportion * sample_factor = (instances / total) * min(instances / 10, 1), capped at 1.
PatternConfidence(pattern_instances, total_instances) ==
    IF total_instances = 0 THEN Ratio(0, 1)
    ELSE LET num == pattern_instances * Min(pattern_instances, 10)
             den == total_instances * 10
         IN IF num > den THEN Ratio(1, 1) ELSE Ratio(num, den)

MaxInstances == 12

\* The calls made so far, with what each returned.
ConfidenceCalls == IF answer.status = "returned" THEN answer.value ELSE <<>>

InitConfidence ==
    /\ call = NoCall /\ answer = NotCalled
    /\ report = NotCalled /\ runs = <<>> /\ clock = 0
    /\ limiter = NoObject /\ requests = <<>>
    /\ attempt = NoCall /\ made = NoObject /\ raised = "none"
    /\ orders = <<>> /\ matches = <<>> /\ args = <<>> /\ rows = NotCalled
    /\ metrics_df = <<>> /\ stats_clips = TRUE /\ findings = NotCalled
    /\ NoObjects /\ FilterIdle /\ InsightIdle

\* generator._calculate_pattern_confidence(pattern_instances, total_instances), twice
\* at most
Confidence ==
    /\ Len(ConfidenceCalls) < 2
    /\ \E pattern_instances \in 0..MaxInstances, total_instances \in 0..MaxInstances :
        /\ call' = [cls |-> "_calculate_pattern_confidence",
                    pattern_instances |-> pattern_instances,
                    total_instances |-> total_instances]
        /\ answer' = Returned(Append(ConfidenceCalls,
                        [pattern_instances |-> pattern_instances,
                         total_instances |-> total_instances,
                         value |-> PatternConfidence(pattern_instances, total_instances)]))
    /\ UNCHANGED <<report, runs, clock, limiter, requests, modelVars, metricsVars, corrVars, heapVars, filterVars, insightVars>>

NextConfidence == Confidence

SpecConfidence == InitConfidence /\ [][NextConfidence]_vars

-----------------------------------------------------------------------------
(* Claims about _calculate_pattern_confidence, checked under SpecConfidence *)

\* Two exact floats compared: a < b, a = b.
RatioLess(a, b) == a.num * b.den < b.num * a.den
RatioEqual(a, b) == a.num * b.den = b.num * a.den

\* min((instances / total) * min(instances / 10, 1), 1) for total > 0, as a quotient:
\* the product is instances * instances / (total * 10) below ten instances and
\* instances / total from ten on.
ClaimedConfidence(instances, total) ==
    LET product == IF instances < 10 THEN Ratio(instances * instances, total * 10)
                   ELSE Ratio(instances, total)
    IN IF RatioLess(Ratio(1, 1), product) THEN Ratio(1, 1) ELSE product

\* C27: _calculate_pattern_confidence(instances, total) is
\* min((instances / total) * min(instances / 10, 1), 1), and 0 when total or instances
\* is 0; for 0 <= instances <= total it lies in [0, 1], grows strictly with instances
\* for a fixed total, and is 1 only when instances = total and instances >= 10.
C27_PatternConfidence ==
    \A i \in 1..Len(ConfidenceCalls) :
        LET c == ConfidenceCalls[i]
        IN /\ c.total_instances > 0
                => RatioEqual(c.value, ClaimedConfidence(c.pattern_instances, c.total_instances))
           /\ (c.total_instances = 0 \/ c.pattern_instances = 0) => c.value.num = 0
           /\ c.pattern_instances <= c.total_instances =>
                /\ ~RatioLess(c.value, Ratio(0, 1)) /\ ~RatioLess(Ratio(1, 1), c.value)
                /\ RatioEqual(c.value, Ratio(1, 1))
                     => c.pattern_instances = c.total_instances /\ c.pattern_instances >= 10
                /\ \A j \in 1..Len(ConfidenceCalls) :
                     LET d == ConfidenceCalls[j]
                     IN (d.total_instances = c.total_instances
                         /\ d.pattern_instances < c.pattern_instances)
                          => RatioLess(d.value, c.value)

\* C27 witness: with twelve instances in all, nine of them gave less confidence than
\* all twelve, which gave 1.
C27_Witness ==
    /\ Len(ConfidenceCalls) = 2
    /\ ConfidenceCalls[1].total_instances = 12 /\ ConfidenceCalls[1].pattern_instances = 9
    /\ ConfidenceCalls[2].total_instances = 12 /\ ConfidenceCalls[2].pattern_instances = 12
    /\ RatioLess(ConfidenceCalls[1].value, ConfidenceCalls[2].value)
    /\ RatioEqual(ConfidenceCalls[2].value, Ratio(1, 1))

-----------------------------------------------------------------------------
(* DataCollectionSystem.handle_api_errors: external_collectors.py *)

\* A header value made of decimal digits, with the number int() reads from it.
Digits(k) == [ty |-> "str", n |-> k, s |-> "digits"]

\* int(text): the number of a string of digits, ValueError for any other string
IntOf(text) == IF text.s = "digits" THEN Returned(PyInt(text.n)) ELSE Raised("ValueError")

\* DataCollectionSystem.handle_api_errors(response) with random.randint(0, 3) = shift:
\* what it leaves and the seconds it slept. A 429 whose Retry-After header is missing
\* or empty falls off the end of the function, which returns None.
HandleApiErrors(response, backoff_factor, shift) ==
    IF response.status_code = 429
    THEN IF response.retry_after # PyNone /\ response.retry_after # PyStr("")
         THEN IF IntOf(response.retry_after).status = "returned"
              THEN [left |-> Returned(PyBool(TRUE)), slept |-> IntOf(response.retry_after).value.n]
              ELSE [left |-> Raised("ValueError"), slept |-> 0]
         ELSE [left |-> Returned(PyNone), slept |-> 0]
    ELSE IF response.status_code \in {500, 502, 503, 504}
         THEN [left |-> Returned(PyBool(TRUE)), slept |-> backoff_factor * 2 ^ shift]
    ELSE [left |-> Returned(PyBool(FALSE)), slept |-> 0]

\* The status codes and Retry-After headers of the responses: no header, seconds, an
\* empty value, an HTTP date.
StatusCodes == {200, 400, 401, 403, 404, 429, 500, 502, 503, 504}
RetryAfterHeaders == {PyNone, Digits(60), Digits(0), PyStr(""), PyStr("Wed, 21 Oct 2015 07:28:00 GMT")}

InitErrors ==
    /\ call \in [cls : {"handle_api_errors"}, status_code : StatusCodes,
                 retry_after : RetryAfterHeaders, backoff_factor : {1, 2}]
    /\ answer = NotCalled /\ clock = 0
    /\ report = NotCalled /\ runs = <<>>
    /\ limiter = NoObject /\ requests = <<>>
    /\ attempt = NoCall /\ made = NoObject /\ raised = "none"
    /\ orders = <<>> /\ matches = <<>> /\ args = <<>> /\ rows = NotCalled
    /\ metrics_df = <<>> /\ stats_clips = TRUE /\ findings = NotCalled
    /\ NoObjects /\ FilterIdle /\ InsightIdle

\* system.handle_api_errors(response); time.sleep moves the clock on
HandleErrors ==
    /\ answer = NotCalled
    /\ \E shift \in 0..3 :
        LET done == HandleApiErrors(call, call.backoff_factor, shift)
        IN answer' = done.left /\ clock' = clock + done.slept
    /\ UNCHANGED <<call, report, runs, limiter, requests, modelVars, metricsVars, corrVars, heapVars, filterVars, insightVars>>

NextErrors == HandleErrors

SpecErrors == InitErrors /\ [][NextErrors]_vars

-----------------------------------------------------------------------------
(* Claims about handle_api_errors, checked under SpecErrors *)

\* C28: handle_api_errors always returns a boolean: True, to recommend a retry, for
\* every response of status 429 and of status 500, 502, 503 or 504, and False for
\* every other status, 401 and 403 included.
C28_AlwaysBoolean ==
    /\ answer.status \in {"not_called", "returned"}
    /\ answer.status = "returned" =>
        answer.value = PyBool(call.status_code \in {429, 500, 502, 503, 504})

-----------------------------------------------------------------------------
(* The sweep followed by detect_statistical_significance on what it found *)

InitLabels ==
    /\ metrics_df \in ListsUpTo(RowCatalogue, MaxRows)
    /\ alpha \in AlphaArgs
    /\ stats_clips = TRUE /\ findings = NotCalled
    /\ correlation_results = <<>> /\ significant = NotCalled
    /\ attempt = NoCall /\ made = NoObject /\ raised = "none"
    /\ orders = <<>> /\ matches = <<>> /\ args = <<>> /\ rows = NotCalled
    /\ NoObjects /\ InsightIdle /\ ToolsIdle

\* analyzer.detect_statistical_significance(findings, alpha) on the list the sweep
\* returned
FilterFindings ==
    /\ findings.status = "returned" /\ significant = NotCalled
    /\ correlation_results' = [i \in 1..Len(heap) |-> i]
    /\ LET done == DetectStatisticalSignificance(heap, correlation_results', alpha)
       IN /\ heap' = done.objects
          /\ constructed' = constructed \o done.born
          /\ significant' = done.result
    /\ UNCHANGED <<toolVars, alpha, modelVars, metricsVars, corrVars, insightVars>>

NextLabels == CalculateCorrelations \/ FilterFindings

SpecLabels == InitLabels /\ [][NextLabels]_vars

-----------------------------------------------------------------------------
(* Claims about the significance label, checked under SpecLabels *)

\* The finding at position i of the sweep's list is an outcome-versus-volume finding:
\* its description is the generated one, whose last part is the significance label.
HasLabel(i) == Len(heap[i].pattern_description.parts) = 8
LabelOf(i) == heap[i].pattern_description.parts[8]

\* The finding at position i of the sweep's list is among those the filter returned.
Kept(i) ==
    \E j \in 1..Len(significant.value) :
        heap[significant.value[j]].analysis_id = heap[i].analysis_id

\* C29: whatever alpha is passed to detect_statistical_significance, the label in the
\* description of each outcome-versus-volume finding agrees with the filter: a
\* returned finding reads "significant", a finding left out reads "not significant".
C29_LabelAgreesWithFilter ==
    significant.status = "returned" =>
        \A i \in 1..Len(findings.value) :
            HasLabel(i) =>
                LabelOf(i) = (IF Kept(i) THEN "significant" ELSE "not significant")

-----------------------------------------------------------------------------
(* RateLimiter: external_collectors.py *)

\* RateLimiter.__init__
RateLimiter(max_per_minute, max_per_hour) ==
    [cls |-> "RateLimiter", max_per_minute |-> max_per_minute,
     max_per_hour |-> max_per_hour, minute_requests |-> <<>>, hour_requests |-> <<>>]

\* [req_time for req_time in times if now - req_time < window]
Recent(times, now, window) ==
    LET Fresh(req_time) == now - req_time < window IN SelectSeq(times, Fresh)

\* Lines 156-167 and 170-181: the time after the check of one window of a number of
\* seconds; time.sleep(sleep_time) moves the clock on by sleep_time.
AfterLimit(times, limit, window, now) ==
    IF Len(times) >= limit /\ window - (now - times[1]) > 0
    THEN now + (window - (now - times[1]))
    ELSE now

\* Lines 183-184: the request is recorded in both windows.
Recorded(self, minute_requests, hour_requests, now) ==
    [self EXCEPT !.minute_requests = Append(minute_requests, now),
                 !.hour_requests = Append(hour_requests, now)]

\* A variant that checks the minute limit only.
WaitIfNeededMinuteOnly(self, now) ==
    LET minute_requests == Recent(self.minute_requests, now, 60)
        hour_requests == Recent(self.hour_requests, now, 3600)
        later == AfterLimit(minute_requests, self.max_per_minute, 60, now)
    IN [self |-> Recorded(self, minute_requests, hour_requests, later), now |-> later]

\* RateLimiter.wait_if_needed called at time now: the object as the call leaves it and
\* the time at which it returns.
WaitIfNeeded(self, now) ==
    LET minute_requests == Recent(self.minute_requests, now, 60)
        hour_requests == Recent(self.hour_requests, now, 3600)
        later == AfterLimit(minute_requests, self.max_per_minute, 60, now)
        latest == AfterLimit(hour_requests, self.max_per_hour, 3600, later)
    IN [self |-> Recorded(self, minute_requests, hour_requests, latest), now |-> latest]

MaxPerMinute == 2
MaxPerHour == 3
MaxCalls == 4

\* The seconds that may pass between the return of a call and the next call.
Pauses == {1, 59, 60, 3480, 3600}

InitLimiter ==
    /\ limiter \in {RateLimiter(m, h) : m \in 1..MaxPerMinute, h \in 1..MaxPerHour}
    /\ requests = <<>> /\ clock = 0
    /\ call = NoCall /\ answer = NotCalled
    /\ report = NotCalled /\ runs = <<>>
    /\ attempt = NoCall /\ made = NoObject /\ raised = "none"
    /\ orders = <<>> /\ matches = <<>> /\ args = <<>> /\ rows = NotCalled
    /\ metrics_df = <<>> /\ stats_clips = TRUE /\ findings = NotCalled
    /\ NoObjects /\ FilterIdle /\ InsightIdle

\* limiter.wait_if_needed()
Wait ==
    /\ Len(requests) < MaxCalls
    /\ LET done == WaitIfNeeded(limiter, clock)
       IN /\ limiter' = done.self
          /\ clock' = done.now
          /\ requests' = Append(requests, [called |-> clock, returned |-> done.now])
    /\ UNCHANGED <<report, runs, call, answer, modelVars, metricsVars, corrVars, heapVars, filterVars, insightVars>>

\* Time passes between two calls: once, from the return of the last call.
Pause ==
    /\ Len(requests) < MaxCalls
    /\ clock = (IF requests = <<>> THEN 0 ELSE requests[Len(requests)].returned)
    /\ \E seconds \in Pauses : clock' = clock + seconds
    /\ UNCHANGED <<limiter, requests, report, runs, call, answer, modelVars, metricsVars, corrVars, heapVars, filterVars, insightVars>>

NextLimiter == Wait \/ Pause

SpecLimiter == InitLimiter /\ [][NextLimiter]_vars

-----------------------------------------------------------------------------
(* Claims about RateLimiter, checked under SpecLimiter *)

\* The number of requests let through within the window of a number of seconds that
\* starts with the i-th request.
RequestsIn(i, window) ==
    Cardinality({j \in 1..Len(requests) :
        /\ requests[i].returned <= requests[j].returned
        /\ requests[j].returned < requests[i].returned + window})

\* C26: on one RateLimiter with limits of at least 1, under a clock that never goes
\* back and that sleeping moves on by the time asked for, every call of wait_if_needed
\* returns having recorded exactly one request time in both windows, and the request
\* times never hold more than max_per_minute requests within any 60 seconds nor more
\* than max_per_hour within any 3600 seconds.
C26_LimitsRespected ==
    /\ \A i \in 1..Len(requests) :
        /\ RequestsIn(i, 60) <= limiter.max_per_minute
        /\ RequestsIn(i, 3600) <= limiter.max_per_hour
    /\ Len(requests) > 0 =>
        /\ limiter.minute_requests[Len(limiter.minute_requests)] = requests[Len(requests)].returned
        /\ limiter.hour_requests[Len(limiter.hour_requests)] = requests[Len(requests)].returned
    /\ \A k \in 1..Len(limiter.minute_requests) :
        limiter.minute_requests[k]
          = requests[Len(requests) - Len(limiter.minute_requests) + k].returned
    /\ \A k \in 1..Len(limiter.hour_requests) :
        limiter.hour_requests[k]
          = requests[Len(requests) - Len(limiter.hour_requests) + k].returned

\* C26 witness: with one request a minute and two an hour allowed, the second call
\* slept for the minute to pass and the third for the hour.
C26_Witness ==
    /\ limiter.max_per_minute = 1 /\ limiter.max_per_hour = 2
    /\ Len(requests) >= 3
    /\ requests[2].returned = requests[1].returned + 60
    /\ requests[2].returned > requests[2].called
    /\ requests[3].returned = requests[1].returned + 3600
    /\ requests[3].returned > requests[3].called

-----------------------------------------------------------------------------
(* orders_to_csv and orders_from_csv: pizza_order.py *)

\* A string is a sequence of pieces. A piece is one character that the csv module or
\* split treats specially (comma, double quote, carriage return, line feed, semicolon,
\* space) or a run of characters none of which is special: a word, the text of a
\* number (n is its value), the ISO text of a datetime (n is its tick).
Ch(c) == [ch |-> c, n |-> 0]
Comma == Ch(",")
Quote == Ch("\"")
CR == Ch("\r")
LF == Ch("\n")
Semicolon == Ch(";")
Space == Ch(" ")

\* str(x) of a number: "25.99" for a float, "25" for an int, "True" for a bool, "nan"
StrOf(x) ==
    CASE x.ty = "bool" -> <<Ch(IF x.n = 1 THEN "True" ELSE "False")>>
      [] x.ty = "int" -> <<[ch |-> "int", n |-> x.n]>>
      [] IsNaN(x) -> <<Ch("nan")>>
      [] OTHER -> <<[ch |-> "float", n |-> x.n]>>

\* float(text): the text of a float or of an int, or "nan"; ValueError otherwise
FloatOf(text) ==
    IF Len(text) # 1 THEN Raised("ValueError")
    ELSE CASE text[1].ch = "float" -> Returned(PyFloat(text[1].n))
           [] text[1].ch = "int" -> Returned(PyFloat(text[1].n * Scale))
           [] text[1].ch = "nan" -> Returned(PyNaN)
           [] OTHER -> Raised("ValueError")

\* int(text): the text of an int; ValueError otherwise
IntOfText(text) ==
    IF Len(text) = 1 /\ text[1].ch = "int" THEN Returned(PyInt(text[1].n))
    ELSE Raised("ValueError")

\* datetime.isoformat()
Isoformat(timestamp) == <<[ch |-> "iso", n |-> timestamp.n]>>

\* datetime.fromisoformat(text)
FromIsoformat(text) ==
    IF Len(text) = 1 /\ text[1].ch = "iso" THEN Returned(PyDatetime(text[1].n))
    ELSE Raised("ValueError")

RECURSIVE Join(_, _)
\* sep.join(texts)
Join(sep, texts) ==
    IF texts = <<>> THEN <<>>
    ELSE IF Len(texts) = 1 THEN texts[1]
    ELSE texts[1] \o <<sep>> \o Join(sep, Tail(texts))

RECURSIVE SplitFrom(_, _, _, _)
\* the pieces of text between separators, piece being the one under way
SplitFrom(text, sep, piece, pieces) ==
    IF text = <<>> THEN Append(pieces, piece)
    ELSE IF Head(text) = sep THEN SplitFrom(Tail(text), sep, <<>>, Append(pieces, piece))
    ELSE SplitFrom(Tail(text), sep, Append(piece, Head(text)), pieces)

\* text.split(sep)
Split(text, sep) == SplitFrom(text, sep, <<>>, <<>>)

\* text.strip() is empty
Blank(text) == \A i \in 1..Len(text) : text[i] \in {Space, CR, LF}

\* DominosOrder.validate: "ok", or the message of the ValueError it raises. A NaN
\* order_total is not below 0 and passes.
DominosOrderValidate(self) ==
    IF self.order_id = <<>> THEN "order_id must be a non-empty string"
    ELSE IF self.timestamp.ty # "datetime" THEN "timestamp must be a datetime object"
    ELSE IF self.location = <<>> THEN "location must be a non-empty string"
    ELSE IF ~IsNumber(self.order_total) \/ (~IsNaN(self.order_total) /\ Num(self.order_total) < 0)
        THEN "order_total must be a non-negative number"
    ELSE IF self.pizza_types = <<>> THEN "pizza_types must be a non-empty list"
    ELSE IF \E i \in 1..Len(self.pizza_types) : Blank(self.pizza_types[i])
        THEN "All pizza types must be non-empty strings"
    ELSE IF ~IsInt(self.quantity) \/ self.quantity.n <= 0
        THEN "quantity must be a positive integer"
    ELSE IF self.data_source \notin {<<Ch("real")>>, <<Ch("mock")>>}
        THEN "data_source must be either 'real' or 'mock'"
    ELSE "ok"

\* DominosOrder.to_csv_row
ToCsvRow(self) ==
    << self.order_id, Isoformat(self.timestamp), self.location, StrOf(self.order_total),
       Join(Semicolon, self.pizza_types), StrOf(self.quantity), self.data_source >>

\* DominosOrder.csv_headers
CsvHeaders ==
    << <<Ch("order_id")>>, <<Ch("timestamp")>>, <<Ch("location")>>, <<Ch("order_total")>>,
       <<Ch("pizza_types")>>, <<Ch("quantity")>>, <<Ch("data_source")>> >>

\* The order from_csv_row builds from the converted columns, validated by __post_init__.
OrderOfColumns(row, timestamp, order_total, quantity) ==
    IF timestamp.status # "returned" \/ order_total.status # "returned" \/ quantity.status # "returned"
    THEN Raised("ValueError")
    ELSE LET made_order == DominosOrder(row[1], timestamp.value, row[3], order_total.value,
                               IF row[5] # <<>> THEN Split(row[5], Semicolon) ELSE <<>>,
                               quantity.value, row[7])
         IN  IF DominosOrderValidate(made_order) = "ok" THEN Returned(made_order)
             ELSE Raised("ValueError")

\* DominosOrder.from_csv_row
FromCsvRow(row) ==
    IF Len(row) # 7 THEN Raised("ValueError")
    ELSE OrderOfColumns(row, FromIsoformat(row[2]), FloatOf(row[4]), IntOfText(row[6]))

RECURSIVE Doubled(_)
\* a field with each of its double quotes written twice
Doubled(field) ==
    IF field = <<>> THEN <<>>
    ELSE (IF Head(field) = Quote THEN <<Quote, Quote>> ELSE <<Head(field)>>)
         \o Doubled(Tail(field))

\* A field as csv.writer writes it (QUOTE_MINIMAL): in double quotes when it holds the
\* delimiter, the quote character or a character of the line terminator, or when it is
\* the empty only field of its row.
WriteField(field, alone) ==
    IF (\E i \in 1..Len(field) : field[i] \in {Comma, Quote, CR, LF}) \/ (alone /\ field = <<>>)
    THEN <<Quote>> \o Doubled(field) \o <<Quote>>
    ELSE field

\* csv.writer.writerow(row): the fields, commas between them, "\r\n" after them
WriteRow(row) ==
    Join(Comma, [i \in 1..Len(row) |-> WriteField(row[i], Len(row) = 1)]) \o <<CR, LF>>

RECURSIVE WriteRows(_)
WriteRows(written) == IF written = <<>> THEN <<>> ELSE WriteRow(Head(written)) \o WriteRows(Tail(written))

\* orders_to_csv
OrdersToCsv(order_list) ==
    IF order_list = <<>> THEN <<>>
    ELSE WriteRows(<<CsvHeaders>> \o [i \in 1..Len(order_list) |-> ToCsvRow(order_list[i])])

\* The positions at which the lines of a StringIO end: after each line feed, and at the
\* end of a text that does not end in one.
LineEnds(text) ==
    {i \in 1..Len(text) : text[i] = LF \/ i = Len(text)}

\* the k-th of them
NthEnd(ends, k) == CHOOSE i \in ends : Cardinality({j \in ends : j <= i}) = k

\* the lines csv.reader draws from StringIO(text), line feeds kept
Lines(text) ==
    [k \in 1..Cardinality(LineEnds(text)) |->
        SubSeq(text, IF k = 1 THEN 1 ELSE NthEnd(LineEnds(text), k - 1) + 1,
               NthEnd(LineEnds(text), k))]

\* The csv parser before its first line: its state, the field and the row under way,
\* the rows read, whether it raised csv.Error.
ParserStart ==
    [state |-> "START_RECORD", field |-> <<>>, row |-> <<>>, read |-> <<>>, error |-> FALSE]

\* parse_save_field, then the state the parser moves to
SaveField(p, state) == [p EXCEPT !.row = Append(p.row, p.field), !.field = <<>>, !.state = state]

\* parse_add_char, then the state the parser moves to
AddChar(p, c, state) == [p EXCEPT !.field = Append(p.field, c), !.state = state]

\* parse_process_char(c) of the csv module, for the excel dialect
ProcessChar(p, c) ==
    CASE p.state = "START_RECORD" /\ c \in {CR, LF} -> [p EXCEPT !.state = "EAT_CRNL"]
      [] p.state = "EAT_CRNL" ->
            IF c \in {CR, LF} THEN p ELSE [p EXCEPT !.error = TRUE]
      [] p.state = "IN_QUOTED_FIELD" ->
            IF c = Quote THEN [p EXCEPT !.state = "QUOTE_IN_QUOTED_FIELD"]
            ELSE AddChar(p, c, "IN_QUOTED_FIELD")
      [] p.state = "QUOTE_IN_QUOTED_FIELD" /\ c = Quote -> AddChar(p, c, "IN_QUOTED_FIELD")
      [] p.state \in {"START_RECORD", "START_FIELD"} /\ c = Quote ->
            [p EXCEPT !.state = "IN_QUOTED_FIELD"]
      [] OTHER ->
            IF c \in {CR, LF} THEN SaveField(p, "EAT_CRNL")
            ELSE IF c = Comma THEN SaveField(p, "START_FIELD")
            ELSE AddChar(p, c, "IN_FIELD")

\* parse_process_char(EOL) at the end of a line, and Reader.__next__ returning the row
\* once the parser is back at the start of a record
EndOfLine(p) ==
    CASE p.state = "IN_QUOTED_FIELD" -> p
      [] p.state \in {"START_RECORD", "EAT_CRNL"} ->
            [p EXCEPT !.read = Append(p.read, p.row), !.row = <<>>, !.state = "START_RECORD"]
      [] OTHER ->
            [p EXCEPT !.read = Append(p.read, Append(p.row, p.field)), !.row = <<>>,
                      !.field = <<>>, !.state = "START_RECORD"]

RECURSIVE ReadLine(_, _)
\* the parser after one line
ReadLine(line, p) ==
    IF p.error THEN p
    ELSE IF line = <<>> THEN EndOfLine(p)
    ELSE ReadLine(Tail(line), ProcessChar(p, Head(line)))

RECURSIVE ReadLines(_, _)
\* Reader.__next__ until the lines run out: a field under way then ends the last row
ReadLines(lines, p) ==
    IF p.error THEN Raised("csv.Error")
    ELSE IF lines # <<>> THEN ReadLines(Tail(lines), ReadLine(Head(lines), p))
    ELSE IF p.state = "IN_QUOTED_FIELD" \/ p.field # <<>>
         THEN Returned(Append(p.read, Append(p.row, p.field)))
    ELSE Returned(p.read)

\* list(csv.reader(StringIO(csv_str)))
ReadRows(csv_str) == ReadLines(Lines(csv_str), ParserStart)

RECURSIVE OrdersOfRows(_, _)
\* the loop of orders_from_csv over the rows after the header: empty rows are skipped,
\* the first row that from_csv_row refuses ends the call
OrdersOfRows(read, order_list) ==
    IF read = <<>> THEN Returned(order_list)
    ELSE IF Head(read) = <<>> THEN OrdersOfRows(Tail(read), order_list)
    ELSE IF FromCsvRow(Head(read)).status # "returned" THEN FromCsvRow(Head(read))
    ELSE OrdersOfRows(Tail(read), Append(order_list, FromCsvRow(Head(read)).value))

\* orders_from_csv
OrdersFromCsv(csv_str) ==
    IF Blank(csv_str) THEN Returned(<<>>)
    ELSE IF ReadRows(csv_str).status # "returned" THEN ReadRows(csv_str)
    ELSE IF ReadRows(csv_str).value = <<>> THEN Returned(<<>>)
    ELSE OrdersOfRows(Tail(ReadRows(csv_str).value), <<>>)

\* The orders written and read back: those of the tests (test_serialization.py), among
\* them ids and locations with commas, and others that validate accepts.
MaxCsvOrders == 2
PlainOrder(pizza_types) ==
    DominosOrder(<<Ch("ORD001")>>, PyDatetime(37), <<Ch("123"), Space, Ch("Main"), Space, Ch("St")>>,
                 PyFloat(2599), pizza_types, PyInt(2), <<Ch("real")>>)
CsvOrderCatalogue ==
    { PlainOrder(<< <<Ch("Pepperoni")>>, <<Ch("Margherita")>> >>),
      DominosOrder(<<Ch("ORD002")>>, PyDatetime(38), <<Ch("456"), Space, Ch("Oak"), Space, Ch("Ave")>>,
                   PyFloat(1850), << <<Ch("Hawaiian")>> >>, PyInt(1), <<Ch("mock")>>),
      DominosOrder(<<Ch("ORD"), Comma, Ch("123")>>, PyDatetime(37),
                   <<Ch("123"), Space, Ch("Main"), Space, Ch("St"), Comma, Space, Ch("Apt"), Space, Ch("2")>>,
                   PyFloat(2599), << <<Ch("Pepperoni")>>, <<Ch("Meat"), Space, Ch("Lovers")>> >>,
                   PyInt(2), <<Ch("real")>>),
      DominosOrder(<<Quote, Ch("A"), Quote>>, PyDatetime(39), <<Ch("Flat"), LF, Ch("2")>>,
                   PyInt(25), << <<Ch("Veggie")>> >>, PyInt(1), <<Ch("mock")>>),
      PlainOrder(<< <<Ch("Ham"), Semicolon, Ch("Cheese")>> >>),
      PlainOrder(<< <<Semicolon>> >>),
      PlainOrder(<< <<Ch("Half"), Comma, Ch("Half")>>, <<Ch("Veggie")>> >>) }

InitCsv ==
    /\ call \in [cls : {"orders_to_csv"},
                 orders : {o \in ListsUpTo(CsvOrderCatalogue, MaxCsvOrders) :
                              \A i \in 1..Len(o) : DominosOrderValidate(o[i]) = "ok"},
                 csv_str : {NotCalled}]
    /\ answer = NotCalled /\ clock = 0
    /\ report = NotCalled /\ runs = <<>>
    /\ limiter = NoObject /\ requests = <<>>
    /\ attempt = NoCall /\ made = NoObject /\ raised = "none"
    /\ orders = <<>> /\ matches = <<>> /\ args = <<>> /\ rows = NotCalled
    /\ metrics_df = <<>> /\ stats_clips = TRUE /\ findings = NotCalled
    /\ NoObjects /\ FilterIdle /\ InsightIdle

\* csv_str = orders_to_csv(orders)
ToCsv ==
    /\ call.csv_str = NotCalled
    /\ call' = [call EXCEPT !.csv_str = Returned(OrdersToCsv(call.orders))]
    /\ UNCHANGED <<answer, report, runs, clock, limiter, requests, modelVars, metricsVars, corrVars, heapVars, filterVars, insightVars>>

\* restored_orders = orders_from_csv(csv_str)
FromCsv ==
    /\ call.csv_str # NotCalled /\ answer = NotCalled
    /\ answer' = OrdersFromCsv(call.csv_str.value)
    /\ UNCHANGED <<call, report, runs, clock, limiter, requests, modelVars, metricsVars, corrVars, heapVars, filterVars, insightVars>>

NextCsv == ToCsv \/ FromCsv

SpecCsv == InitCsv /\ [][NextCsv]_vars

-----------------------------------------------------------------------------
(* Claims about the CSV round trip, checked under SpecCsv *)

\* a == b for two Python numbers: never true of NaN
PyEqual(a, b) == ~IsNaN(a) /\ ~IsNaN(b) /\ Num(a) = Num(b)

\* every field of the restored order equals that of the original
SameOrder(a, b) ==
    /\ a.order_id = b.order_id /\ a.timestamp = b.timestamp /\ a.location = b.location
    /\ PyEqual(a.order_total, b.order_total) /\ a.pizza_types = b.pizza_types
    /\ PyEqual(a.quantity, b.quantity) /\ a.data_source = b.data_source

\* C25: for every list of valid DominosOrder objects, orders_from_csv(orders_to_csv(
\* orders)) returns as many orders, in the same order, every field equal to the
\* original's, ids and locations with commas and every pizza_types list included; the
\* empty list is written as the empty string and the empty string read as the empty list.
C25_CsvRoundTrip ==
    /\ (call.csv_str # NotCalled /\ call.orders = <<>>) => call.csv_str.value = <<>>
    /\ answer # NotCalled =>
        /\ answer.status = "returned"
        /\ Len(answer.value) = Len(call.orders)
        /\ \A i \in 1..Len(call.orders) : SameOrder(answer.value[i], call.orders[i])

-----------------------------------------------------------------------------
(* generate_comprehensive_report: insight_generator.py *)

\* The dataclass fields of InsightReport, in declaration order; the class validates nothing.
InsightReport(report_id, generation_timestamp, analysis_period, data_quality_score, total_matches, total_orders, real_data_percentage, temporal_patterns, anomaly_list, summary_statistics, key_insights, recommendations) ==
    [cls |-> "InsightReport", report_id |-> report_id,
     generation_timestamp |-> generation_timestamp, analysis_period |-> analysis_period,
     data_quality_score |-> data_quality_score, total_matches |-> total_matches,
     total_orders |-> total_orders, real_data_percentage |-> real_data_percentage,
     temporal_patterns |-> temporal_patterns, anomalies |-> anomaly_list,
     summary_statistics |-> summary_statistics, key_insights |-> key_insights,
     recommendations |-> recommendations]

\* InsightGenerator._calculate_real_data_percentage, in exact arithmetic
CalculateRealDataPercentage(order_list, match_list) ==
    IF Len(order_list) + Len(match_list) = 0 THEN Ratio(0, 1)
    ELSE Ratio((Len(FromSource(order_list, "real")) + Len(FromSource(match_list, "real"))) * 100,
               Len(order_list) + Len(match_list))

\* the timestamps of a list of orders or matches, in ticks
TimesOf(items) == {items[i].timestamp.n : i \in 1..Len(items)}

\* min and max of a non-empty set of ticks
Earliest(times) == CHOOSE t \in times : \A u \in times : t <= u
Latest(times) == CHOOSE t \in times : \A u \in times : u <= t

\* InsightGenerator._assess_data_completeness: 25 points each for orders, matches,
\* metrics and an overlap of the times of the orders with those of the matches
AssessDataCompleteness(order_list, match_list, df) ==
    (IF order_list # <<>> THEN 25 ELSE 0)
    + (IF match_list # <<>> THEN 25 ELSE 0)
    + (IF df # <<>> THEN 25 ELSE 0)
    + (IF /\ order_list # <<>> /\ match_list # <<>>
          /\ Earliest(TimesOf(order_list)) <= Latest(TimesOf(match_list))
          /\ Earliest(TimesOf(match_list)) <= Latest(TimesOf(order_list))
       THEN 25 ELSE 0)

\* order.validate() returns: the checks of the fields an analysis reads
OrderValidates(order) ==
    /\ IsNumber(order.order_total)
    /\ IsNaN(order.order_total) \/ Num(order.order_total) >= 0
    /\ order.pizza_types # <<>>
    /\ IsInt(order.quantity) /\ order.quantity.n > 0
    /\ order.data_source \in valid_data_sources

\* InsightGenerator._assess_data_consistency
AssessDataConsistency(order_list, match_list) ==
    LET score ==
          100
          - (IF \E i \in 1..Len(order_list) : ~OrderValidates(order_list[i]) THEN 10 ELSE 0)
          - (IF \E i \in 1..Len(match_list) : FootballMatchValidate(match_list[i]) # "ok"
             THEN 10 ELSE 0)
          - (IF \E i \in 1..Len(order_list) :
                   ~IsNaN(order_list[i].order_total) /\ Num(order_list[i].order_total) > 1000 * Scale
             THEN 5 ELSE 0)
          - (IF \E i \in 1..Len(order_list) :
                   ~IsNaN(order_list[i].order_total) /\ Num(order_list[i].order_total) < 5 * Scale
             THEN 5 ELSE 0)
          - (IF \E i \in 1..Len(match_list) :
                   match_list[i].home_score.n + match_list[i].away_score.n > 10
             THEN 5 ELSE 0)
    IN IF score > 0 THEN score ELSE 0

\* min(real_data_pct * 0.4 + completeness * 0.3 + consistency * 0.3, 100), the
\* percentage being the quotient real_data_pct.num / real_data_pct.den
WeightedQuality(real_data_pct, completeness, consistency) ==
    LET num == 4 * real_data_pct.num + 3 * (completeness + consistency) * real_data_pct.den
        den == 10 * real_data_pct.den
    IN IF num > 100 * den THEN Ratio(100, 1) ELSE Ratio(num, den)

\* A variant that weighs the three parts equally.
CalculateOverallDataQualityEqualWeights(order_list, match_list, df) ==
    LET real_data_pct == CalculateRealDataPercentage(order_list, match_list)
    IN Ratio(real_data_pct.num + (AssessDataCompleteness(order_list, match_list, df)
                                  + AssessDataConsistency(order_list, match_list)) * real_data_pct.den,
             3 * real_data_pct.den)

\* InsightGenerator._calculate_overall_data_quality
CalculateOverallDataQuality(order_list, match_list, df) ==
    WeightedQuality(CalculateRealDataPercentage(order_list, match_list),
                    AssessDataCompleteness(order_list, match_list, df),
                    AssessDataConsistency(order_list, match_list))

\* InsightGenerator._identify_peak_order_period: the first of the three periods whose
\* mean order count no other exceeds
IdentifyPeakOrderPeriod(df) ==
    IF df = <<>> THEN "unknown"
    ELSE IF /\ SumInt(df, "pre_match_order_count") >= SumInt(df, "during_match_order_count")
            /\ SumInt(df, "pre_match_order_count") >= SumInt(df, "post_match_order_count")
         THEN "pre_match"
    ELSE IF SumInt(df, "during_match_order_count") >= SumInt(df, "post_match_order_count")
         THEN "during_match"
    ELSE "post_match"

\* InsightGenerator.generate_summary_statistics: the overview, the temporal statistics
\* (an empty dict without metrics) and the data quality metrics, which are the entries
\* the report reads; the order, match and volume statistics are not modelled.
GenerateSummaryStatistics(order_list, match_list, df) ==
    [data_overview |-> [total_orders |-> Len(order_list), total_matches |-> Len(match_list)],
     temporal_statistics |->
        IF df = <<>> THEN <<>> ELSE [highest_order_period |-> IdentifyPeakOrderPeriod(df)],
     data_quality_metrics |->
        [real_data_percentage |-> CalculateRealDataPercentage(order_list, match_list),
         data_completeness |-> AssessDataCompleteness(order_list, match_list, df),
         data_consistency_score |-> AssessDataConsistency(order_list, match_list)]]

\* items[:n]
FirstN(items, n) == SubSeq(items, 1, Min(n, Len(items)))

\* max(items, key): the position of the first item no other exceeds
FirstMax(keys) ==
    CHOOSE i \in 1..Len(keys) :
        /\ \A j \in 1..Len(keys) : keys[j] <= keys[i]
        /\ \A j \in 1..(i - 1) : keys[j] < keys[i]

\* The insight on the strongest spike (lines 1076-1079), or none.
SpikeInsight(spike_patterns) ==
    IF spike_patterns = <<>> THEN <<>>
    ELSE LET strongest_spike ==
               spike_patterns[FirstMax([i \in 1..Len(spike_patterns) |-> Num(spike_patterns[i].magnitude)])]
         IN <<PyText("Strongest ordering spike detected in {} period with {:.1f}% increase",
                     <<strongest_spike.time_period, strongest_spike.magnitude>>)>>

\* The insight on the strongest significant correlation (lines 1082-1086), or none.
CorrelationInsight(significant_correlations) ==
    IF significant_correlations = <<>> THEN <<>>
    ELSE LET strongest_corr ==
               significant_correlations[FirstMax([i \in 1..Len(significant_correlations) |->
                     Abs(Num(significant_correlations[i].correlation_coefficient))])]
         IN <<PyText("Strongest significant correlation: {}", <<strongest_corr.pattern_description>>)>>

\* The comment on the share of real data (lines 1089-1094), or none.
DataQualityInsight(real_pct) ==
    IF RatioLess(Ratio(70, 1), real_pct)
    THEN <<PyText("High data quality with {:.1f}% real data", <<real_pct>>)>>
    ELSE IF RatioLess(real_pct, Ratio(30, 1))
    THEN <<PyText("Analysis primarily based on mock data ({:.1f}% real data)", <<real_pct>>)>>
    ELSE <<>>

\* The insight on the anomalies of severity high or critical (lines 1097-1099), or none.
AnomalyInsight(high_severity_anomalies) ==
    IF high_severity_anomalies = <<>> THEN <<>>
    ELSE <<PyText("Detected {} high-severity anomalies requiring attention",
                  <<Len(high_severity_anomalies)>>)>>

\* peak_period.replace('_', '-')
Hyphenated(peak_period) ==
    CASE peak_period = "pre_match" -> "pre-match"
      [] peak_period = "during_match" -> "during-match"
      [] peak_period = "post_match" -> "post-match"
      [] OTHER -> peak_period

\* The insight on the peak period (lines 1102-1105), or none.
PeakInsight(temporal_statistics) ==
    IF "highest_order_period" \notin DOMAIN temporal_statistics THEN <<>>
    ELSE IF temporal_statistics.highest_order_period \in {"", "unknown"} THEN <<>>
    ELSE <<PyText("Peak ordering occurs during {} period",
                  <<Hyphenated(temporal_statistics.highest_order_period)>>)>>

\* the anomalies of severity high or critical
HighSeverity(anomaly_list) ==
    LET High(a) == a.severity \in {"high", "critical"} IN SelectSeq(anomaly_list, High)

\* the patterns of type spike
Spikes(temporal_patterns) ==
    LET Spike(p) == p.pattern_type = "spike" IN SelectSeq(temporal_patterns, Spike)

\* the results for which is_significant() holds, with its default alpha of 0.05
SignificantAtDefault(results) ==
    LET Significant(r) == IsSignificant(r, PyFloat(5)) IN SelectSeq(results, Significant)

\* A variant that puts the comment on data quality first.
GenerateKeyInsightsQualityFirst(temporal_patterns, summary_statistics, anomaly_list, results) ==
    FirstN(DataQualityInsight(summary_statistics.data_quality_metrics.real_data_percentage)
           \o SpikeInsight(Spikes(temporal_patterns))
           \o CorrelationInsight(SignificantAtDefault(results))
           \o AnomalyInsight(HighSeverity(anomaly_list))
           \o PeakInsight(summary_statistics.temporal_statistics), 10)

\* InsightGenerator._generate_key_insights: insights[:10]
GenerateKeyInsights(temporal_patterns, summary_statistics, anomaly_list, results) ==
    FirstN(SpikeInsight(Spikes(temporal_patterns))
           \o CorrelationInsight(SignificantAtDefault(results))
           \o DataQualityInsight(summary_statistics.data_quality_metrics.real_data_percentage)
           \o AnomalyInsight(HighSeverity(anomaly_list))
           \o PeakInsight(summary_statistics.temporal_statistics), 10)

\* the patterns that are a spike in the post-match period
PostMatchSpikes(temporal_patterns) ==
    LET Post(p) == p.time_period = "post_match" /\ p.pattern_type = "spike"
    IN SelectSeq(temporal_patterns, Post)

\* A variant that asks for better data from a score of 50 down.
GenerateRecommendationsAtFifty(temporal_patterns, anomaly_list, data_quality_score) ==
    FirstN((IF ~RatioLess(Ratio(50, 1), data_quality_score)
            THEN <<"Improve data collection to increase real data percentage for more reliable insights">>
            ELSE <<>>)
           \o (IF PostMatchSpikes(temporal_patterns) # <<>>
               THEN <<"Consider targeted marketing campaigns immediately after football matches to capitalize on ordering spikes">>
               ELSE <<>>)
           \o (IF HighSeverity(anomaly_list) # <<>>
               THEN <<"Investigate high-severity anomalies to identify potential data quality issues or unusual business patterns">>
               ELSE <<>>)
           \o <<"Continue monitoring correlation patterns to identify optimal timing for promotional activities">>
           \o (IF Len(temporal_patterns) > 5
               THEN <<"Rich pattern data suggests implementing automated alert system for significant ordering changes">>
               ELSE <<>>), 8)

\* InsightGenerator._generate_recommendations: recommendations[:8]
GenerateRecommendations(temporal_patterns, anomaly_list, data_quality_score) ==
    FirstN((IF RatioLess(data_quality_score, Ratio(50, 1))
            THEN <<"Improve data collection to increase real data percentage for more reliable insights">>
            ELSE <<>>)
           \o (IF PostMatchSpikes(temporal_patterns) # <<>>
               THEN <<"Consider targeted marketing campaigns immediately after football matches to capitalize on ordering spikes">>
               ELSE <<>>)
           \o (IF HighSeverity(anomaly_list) # <<>>
               THEN <<"Investigate high-severity anomalies to identify potential data quality issues or unusual business patterns">>
               ELSE <<>>)
           \o <<"Continue monitoring correlation patterns to identify optimal timing for promotional activities">>
           \o (IF Len(temporal_patterns) > 5
               THEN <<"Rich pattern data suggests implementing automated alert system for significant ordering changes">>
               ELSE <<>>), 8)

\* InsightGenerator._get_analysis_period_tuple
GetAnalysisPeriodTuple(order_list, match_list) ==
    IF order_list = <<>> /\ match_list = <<>> THEN <<UtcNow, UtcNow>>
    ELSE <<PyDatetime(Earliest(TimesOf(order_list) \cup TimesOf(match_list))),
           PyDatetime(Latest(TimesOf(order_list) \cup TimesOf(match_list)))>>

\* The InsightReport built from the components (lines 585-598).
ReportOf(order_list, match_list, temporal_patterns, summary_statistics, anomaly_list, data_quality_score, results) ==
    InsightReport(Uuid4("report", <<>>), UtcNow,
                  GetAnalysisPeriodTuple(order_list, match_list), data_quality_score,
                  Len(match_list), Len(order_list),
                  CalculateRealDataPercentage(order_list, match_list),
                  temporal_patterns, anomaly_list, summary_statistics,
                  GenerateKeyInsights(temporal_patterns, summary_statistics, anomaly_list, results),
                  GenerateRecommendations(temporal_patterns, anomaly_list, data_quality_score))

\* InsightGenerator.generate_comprehensive_report(orders, matches, metrics_df,
\* correlation_results); failing is the helper of the pattern analysis and of the
\* anomaly detection in which a call raises, 0 for none.
GenerateComprehensiveReport(order_list, match_list, df, results, failing) ==
    Returned(ReportOf(order_list, match_list,
                      AnalyzeTemporalPatterns(df, failing).value,
                      GenerateSummaryStatistics(order_list, match_list, df),
                      DetectAnomaliesWithSourceDistinction(order_list, match_list, df, failing).value,
                      CalculateOverallDataQuality(order_list, match_list, df),
                      results))

-----------------------------------------------------------------------------
(* Calls of generate_comprehensive_report *)

\* A match five ticks after the others, with eleven goals.
LateMatch == FootballMatch(PyStr("MATCH4"), PyDatetime(5), PyStr("Ajax"), PyStr("Porto"), PyInt(6), PyInt(5), "win", "regular", "real")

\* The order lists of the reports: none; mock orders only, one of them far dearer than
\* the others; mostly real orders with such an order; one real and one mock order; a
\* real order below 5 dollars; a mock order above 1000 dollars; one real order among
\* eight.
ReportOrders ==
    {<<>>,
     <<BasketOrder(10, "real"), BasketOrder(10, "mock"), BasketOrder(10, "mock"),
       BasketOrder(10, "mock"), BasketOrder(10, "mock"), BasketOrder(10, "mock"),
       BasketOrder(10, "mock"), BasketOrder(10, "mock")>>,
     <<BasketOrder(10, "mock"), BasketOrder(10, "mock"), BasketOrder(10, "mock"),
       BasketOrder(10, "mock"), BasketOrder(100, "mock")>>,
     <<BasketOrder(10, "real"), BasketOrder(10, "real"), BasketOrder(10, "real"),
       BasketOrder(10, "real"), BasketOrder(100, "mock")>>,
     <<BasketOrder(10, "real"), BasketOrder(20, "mock")>>,
     <<BasketOrder(3, "real")>>,
     <<BasketOrder(2000, "mock")>>}

ReportMatches == {<<>>, <<HomeWin>>, <<GoallessDraw>>, <<HomeWin, LateMatch>>}

ReportFrames == {<<>>, BusyThroughout, ThreeMatches, QuietAfterGoals, OneBusyMatch}

\* The lists of correlation results: none; one that is not significant; two
\* significant ones, the second the stronger; a significant one after a stronger one
\* that is not significant.
ReportResults ==
    {<<>>,
     <<InputResult(1, [correlation_coefficient |-> PyFloat(75), time_window |-> "pre_match",
                       pattern_description |-> PyStr("strong positive correlation")], PyFloat(5))>>,
     <<InputResult(1, [correlation_coefficient |-> PyFloat(-30), time_window |-> "pre_to_post_match",
                       pattern_description |-> PyStr("weak negative correlation")], PyFloat(1)),
       InputResult(2, [correlation_coefficient |-> PyFloat(-75), time_window |-> "post_match",
                       pattern_description |-> PyStr("strong negative correlation")], PyFloat(0))>>,
     <<InputResult(1, [correlation_coefficient |-> PyFloat(90), time_window |-> "pre_match",
                       pattern_description |-> PyStr("very strong positive correlation")], PyFloat(50)),
       InputResult(2, [correlation_coefficient |-> PyFloat(40), time_window |-> "during_match",
                       pattern_description |-> PyStr("moderate positive correlation")], PyFloat(4))>>}

InitReport ==
    /\ orders \in ReportOrders
    /\ matches \in ReportMatches
    /\ metrics_df \in ReportFrames
    /\ heap \in ReportResults
    /\ constructed = heap
    /\ correlation_results = [i \in 1..Len(heap) |-> i]
    /\ fault \in {0, 1, 5}
    /\ alpha = PyNone /\ significant = NotCalled
    /\ patterns = NotCalled /\ anomalies = NotCalled /\ classified = NotCalled
    /\ stats_clips = TRUE /\ findings = NotCalled
    /\ attempt = NoCall /\ made = NoObject /\ raised = "none"
    /\ args = <<>> /\ rows = NotCalled
    /\ ToolsIdle

\* generator.generate_comprehensive_report(orders, matches, metrics_df, correlation_results)
GenerateReport ==
    /\ report = NotCalled
    /\ report' = GenerateComprehensiveReport(orders, matches, metrics_df,
                     [i \in 1..Len(correlation_results) |-> heap[correlation_results[i]]], fault)
    /\ UNCHANGED <<runs, clock, limiter, requests, call, answer, modelVars, metricsVars, corrVars, heapVars, filterVars, insightVars>>

NextReport == GenerateReport

SpecReport == InitReport /\ [][NextReport]_vars


-----------------------------------------------------------------------------
(* Claims about the report, checked under SpecReport *)

ReportMade == report.status = "returned"

\* the share of real records among the orders and the matches, in percent, as a
\* quotient; 0 when there is neither
RealShare ==
    LET real == Cardinality({i \in 1..Len(orders) : orders[i].data_source = "real"})
                + Cardinality({i \in 1..Len(matches) : matches[i].data_source = "real"})
    IN IF Len(orders) + Len(matches) = 0 THEN Ratio(0, 1)
       ELSE Ratio(100 * real, Len(orders) + Len(matches))

\* score = min(0.4 * real_pct + 0.3 * completeness + 0.3 * consistency, 100), the
\* score and the percentage being quotients
IsWeightedScore(score, real_pct, completeness, consistency) ==
    LET tenfold == Ratio(4 * real_pct.num + 3 * (completeness + consistency) * real_pct.den,
                         real_pct.den)
    IN IF RatioLess(Ratio(1000, 1), tenfold) THEN RatioEqual(score, Ratio(100, 1))
       ELSE RatioEqual(Ratio(10 * score.num, score.den), tenfold)

\* C21: the data_quality_score of a report is 0.4 * real_data_pct + 0.3 * completeness
\* + 0.3 * consistency capped at 100 and lies in [0, 100], where real_data_pct is the
\* share of real records among the orders and matches (0 when there are none),
\* completeness a multiple of 25 in [0, 100] and consistency a number in [0, 100].
C21_DataQualityScore ==
    ReportMade =>
        LET quality == report.value.summary_statistics.data_quality_metrics
        IN /\ RatioEqual(quality.real_data_percentage, RealShare)
           /\ RatioEqual(report.value.real_data_percentage, RealShare)
           /\ quality.data_completeness \in {0, 25, 50, 75, 100}
           /\ quality.data_consistency_score \in 0..100
           /\ IsWeightedScore(report.value.data_quality_score, RealShare,
                              quality.data_completeness, quality.data_consistency_score)
           /\ ~RatioLess(report.value.data_quality_score, Ratio(0, 1))
           /\ ~RatioLess(Ratio(100, 1), report.value.data_quality_score)

\* C21 witness: four real orders and a mock one, a real match at another time and
\* metrics gave 0.4 * 83.33 + 0.3 * 75 + 0.3 * 100 = 85.83.
C21_Witness ==
    /\ ReportMade /\ Len(orders) = 5 /\ matches = <<HomeWin>> /\ metrics_df # <<>>
    /\ RatioEqual(RealShare, Ratio(500, 6))
    /\ report.value.summary_statistics.data_quality_metrics.data_completeness = 75
    /\ report.value.summary_statistics.data_quality_metrics.data_consistency_score = 100
    /\ RatioEqual(report.value.data_quality_score, Ratio(5150, 60))

DataQualityRecommendation == "Improve data collection to increase real data percentage for more reliable insights"
MarketingRecommendation == "Consider targeted marketing campaigns immediately after football matches to capitalize on ordering spikes"
AnomalyRecommendation == "Investigate high-severity anomalies to identify potential data quality issues or unusual business patterns"
MonitoringRecommendation == "Continue monitoring correlation patterns to identify optimal timing for promotional activities"
AutomationRecommendation == "Rich pattern data suggests implementing automated alert system for significant ordering changes"

\* the recommendation, if the condition for it holds
If(condition, recommendation) == IF condition THEN <<recommendation>> ELSE <<>>

\* C22: the recommendations of a report are at most 8: the data-quality one iff the
\* overall score is below 50, the marketing one iff some pattern is a spike in the
\* post-match period, the anomaly one iff some anomaly has severity high or critical,
\* the monitoring one always, the automation one iff there are more than 5 patterns,
\* in this order.
C22_Recommendations ==
    ReportMade =>
        LET r == report.value
        IN /\ Len(r.recommendations) <= 8
           /\ r.recommendations =
                If(RatioLess(r.data_quality_score, Ratio(50, 1)), DataQualityRecommendation)
                \o If(\E i \in 1..Len(r.temporal_patterns) :
                         /\ r.temporal_patterns[i].pattern_type = "spike"
                         /\ r.temporal_patterns[i].time_period = "post_match",
                      MarketingRecommendation)
                \o If(\E i \in 1..Len(r.anomalies) : r.anomalies[i].severity \in {"high", "critical"},
                      AnomalyRecommendation)
                \o <<MonitoringRecommendation>>
                \o If(Len(r.temporal_patterns) > 5, AutomationRecommendation)

\* C22 witness: a report with all five recommendations.
C22_Witness ==
    /\ ReportMade
    /\ report.value.recommendations =
         <<DataQualityRecommendation, MarketingRecommendation, AnomalyRecommendation,
           MonitoringRecommendation, AutomationRecommendation>>


\* The spike patterns and the significant results (p < 0.05) a report was made of.
SpikesOfReport ==
    {i \in 1..Len(report.value.temporal_patterns) :
        report.value.temporal_patterns[i].pattern_type = "spike"}
SignificantResults ==
    {i \in 1..Len(correlation_results) :
        Num(heap[correlation_results[i]].statistical_significance) < 5}

\* The sentences on a spike of greatest magnitude; the empty list when there is no spike.
StrongestSpikeInsights ==
    IF SpikesOfReport = {} THEN {<<>>}
    ELSE {<<PyText("Strongest ordering spike detected in {} period with {:.1f}% increase",
                   <<report.value.temporal_patterns[i].time_period,
                     report.value.temporal_patterns[i].magnitude>>)>> :
            i \in {k \in SpikesOfReport : \A j \in SpikesOfReport :
                     Num(report.value.temporal_patterns[j].magnitude)
                        <= Num(report.value.temporal_patterns[k].magnitude)}}

\* The sentences on a significant result of greatest absolute coefficient.
StrongestCorrelationInsights ==
    IF SignificantResults = {} THEN {<<>>}
    ELSE {<<PyText("Strongest significant correlation: {}",
                   <<heap[correlation_results[i]].pattern_description>>)>> :
            i \in {k \in SignificantResults : \A j \in SignificantResults :
                     Abs(Num(heap[correlation_results[j]].correlation_coefficient))
                        <= Abs(Num(heap[correlation_results[k]].correlation_coefficient))}}

\* The comment on data quality: present iff the share of real data is above 70 or below 30.
QualityComment ==
    IF RatioLess(Ratio(70, 1), RealShare)
    THEN <<PyText("High data quality with {:.1f}% real data", <<RealShare>>)>>
    ELSE IF RatioLess(RealShare, Ratio(30, 1))
    THEN <<PyText("Analysis primarily based on mock data ({:.1f}% real data)", <<RealShare>>)>>
    ELSE <<>>

\* The count of the anomalies of severity high or critical, if there is any.
HighAnomalyCount ==
    LET high == {i \in 1..Len(report.value.anomalies) :
                    report.value.anomalies[i].severity \in {"high", "critical"}}
    IN IF high = {} THEN <<>>
       ELSE <<PyText("Detected {} high-severity anomalies requiring attention", <<Cardinality(high)>>)>>

\* The mean order count of a period over the rows of the frame, times their number.
PeriodOrders(period) ==
    Sum([i \in 1..Len(metrics_df) |->
            CASE period = "pre-match" -> metrics_df[i].pre_match_order_count.n
              [] period = "during-match" -> metrics_df[i].during_match_order_count.n
              [] OTHER -> metrics_df[i].post_match_order_count.n])

\* The sentences naming a period of greatest mean order count, if there are metrics.
PeakPeriodInsights ==
    IF metrics_df = <<>> THEN {<<>>}
    ELSE {<<PyText("Peak ordering occurs during {} period", <<period>>)>> :
            period \in {p \in {"pre-match", "during-match", "post-match"} :
                          \A q \in {"pre-match", "during-match", "post-match"} :
                              PeriodOrders(q) <= PeriodOrders(p)}}

\* C23: the key insights of a report are at most 10, in this order: the spike pattern
\* of greatest magnitude (if there is a spike), the significant correlation (p < 0.05)
\* of greatest absolute coefficient (if there is one), the comment on data quality
\* (iff the real-data percentage is above 70 or below 30), the count of the anomalies
\* of severity high or critical (if there is one), the peak ordering period (if known).
C23_KeyInsights ==
    ReportMade =>
        /\ Len(report.value.key_insights) <= 10
        /\ \E spike \in StrongestSpikeInsights, correlation \in StrongestCorrelationInsights,
              peak \in PeakPeriodInsights :
                report.value.key_insights =
                    spike \o correlation \o QualityComment \o HighAnomalyCount \o peak

\* C23 witness: a report with all five insights, the correlation named being the
\* stronger of two significant ones.
C23_Witness ==
    /\ ReportMade /\ Len(report.value.key_insights) = 5
    /\ Len(heap) = 2 /\ SignificantResults = {1, 2}
    /\ report.value.key_insights[2].parts = <<PyStr("strong negative correlation")>>


-----------------------------------------------------------------------------
(* The analysis pipeline run more than once: etl_pipeline.py, correlation_analyzer.py,
   insight_generator.py *)

\* The findings of a run with the ids uuid.uuid4() generates in that run and the
\* analysis_timestamp datetime.now() gives them.
FindingsOfRun(results, serial, now) ==
    [k \in 1..Len(results) |->
        [results[k] EXCEPT !.analysis_id = [@ EXCEPT !.n = serial],
                           !.analysis_timestamp = PyDatetime(now)]]

\* The patterns of a run with the ids uuid.uuid4() generates in that run.
PatternsOfRun(temporal_patterns, serial) ==
    [k \in 1..Len(temporal_patterns) |->
        [temporal_patterns[k] EXCEPT !.pattern_id = [@ EXCEPT !.n = serial]]]

\* What a run leaves: the two input lists as they are after it, the metrics rows, the
\* findings, the classified matches and the patterns.
RunOf(order_list, match_list, df, serial, now) ==
    [orders |-> order_list, matches |-> match_list, rows |-> df,
     findings |-> FindingsOfRun(CalculateCorrelationCoefficients(df).value, serial, now),
     classified |-> ClassifyFootballEvents(match_list).value,
     patterns |-> PatternsOfRun(AnalyzeTemporalPatterns(df, 0).value, serial)]

\* A variant whose analyzer keeps the matches it has analysed and skips them in the
\* runs that follow.
RunPipelineSkippingSeen(order_list, match_list, serial, now) ==
    RunOf(order_list, match_list,
          IF serial > 1 THEN <<>>
          ELSE CalculateMatchPeriodMetrics(order_list, match_list, DefaultHours,
                                           DefaultHours, DefaultHours).value,
          serial, now)

\* calculate_match_period_metrics, calculate_correlation_coefficients,
\* classify_football_events and analyze_temporal_patterns on two lists, as the
\* serial-th run at time now: the analyzer and the generator keep nothing but a
\* logger, and the lists are read through asdict(), which copies.
RunPipeline(order_list, match_list, serial, now) ==
    RunOf(order_list, match_list,
          CalculateMatchPeriodMetrics(order_list, match_list, DefaultHours,
                                      DefaultHours, DefaultHours).value,
          serial, now)

MaxRuns == 2
MaxTicks == 2

\* A match of the pipeline's lists, by kick-off tick and score.
PipelineMatch(t, home_score, away_score, event_type, significance) ==
    FootballMatch([ty |-> "str", n |-> t, s |-> "MATCH"], PyDatetime(t), PyStr("Arsenal"),
                  PyStr("Chelsea"), PyInt(home_score), PyInt(away_score), event_type,
                  significance, IF t < 0 THEN "mock" ELSE "real")

PipelineMatches ==
    {<<>>,
     <<PipelineMatch(0, 2, 1, "win", "regular")>>,
     <<PipelineMatch(-4, 2, 1, "win", "regular"), PipelineMatch(0, 0, 0, "draw", "tournament"),
       PipelineMatch(4, 1, 3, "loss", "final")>>,
     <<PipelineMatch(-4, 2, 1, "win", "regular"), PipelineMatch(0, 0, 0, "draw", "tournament"),
       PipelineMatch(2, 3, 0, "win", "final"), PipelineMatch(4, 1, 3, "loss", "final")>>}

PipelineOrders ==
    {<<>>,
     <<OrderAt(-6), OrderAt(-3), OrderAt(0), OrderAt(1), OrderAt(5)>>,
     <<OrderAt(-7), OrderAt(-5), OrderAt(-1), OrderAt(3), OrderAt(6), OrderAt(7)>>,
     <<OrderAt(-2), OrderAt(-1), OrderAt(7)>>}

InitPipeline ==
    /\ orders \in PipelineOrders
    /\ matches \in {m \in PipelineMatches : \A i \in 1..Len(m) : FootballMatchValidate(m[i]) = "ok"}
    /\ call = [cls |-> "pipeline", orders |-> orders, matches |-> matches]
    /\ runs = <<>> /\ clock = 0
    /\ report = NotCalled /\ answer = NotCalled
    /\ limiter = NoObject /\ requests = <<>>
    /\ attempt = NoCall /\ made = NoObject /\ raised = "none"
    /\ args = <<>> /\ rows = NotCalled
    /\ metrics_df = <<>> /\ stats_clips = TRUE /\ findings = NotCalled
    /\ NoObjects /\ FilterIdle /\ InsightIdle

\* One run of the pipeline on the lists the caller holds.
Run ==
    /\ Len(runs) < MaxRuns
    /\ LET done == RunPipeline(orders, matches, Len(runs) + 1, clock)
       IN /\ runs' = Append(runs, done)
          /\ orders' = done.orders
          /\ matches' = done.matches
    /\ UNCHANGED <<report, clock, limiter, requests, call, answer, args, rows, modelVars, corrVars, heapVars, filterVars, insightVars>>

\* Time passes between two runs.
Tick ==
    /\ clock < MaxTicks
    /\ clock' = clock + 1
    /\ UNCHANGED <<report, runs, limiter, requests, call, answer, modelVars, metricsVars, corrVars, heapVars, filterVars, insightVars>>

NextPipeline == Run \/ Tick

SpecPipeline == InitPipeline /\ [][NextPipeline]_vars

-----------------------------------------------------------------------------
(* Claims about repeated runs, checked under SpecPipeline *)

\* the coefficient, p-value and time window of each finding, in order
Statistics(results) ==
    [k \in 1..Len(results) |->
        <<results[k].correlation_coefficient, results[k].statistical_significance,
          results[k].time_window>>]

\* the magnitude of each pattern, in order
Magnitudes(temporal_patterns) ==
    [k \in 1..Len(temporal_patterns) |-> temporal_patterns[k].magnitude]

=============================================================================
